---- MODULE Spec2Model ----
(***************************************************************************)
(* Model of the Schnorr proof service of secure-files                      *)
(* (src/app/services/zkp.py) and of the callers that decide who is         *)
(* authenticated (src/app/services/auth.py).                               *)
(*                                                                         *)
(* The curve is a scaled-down curve of the same shape as SECP256k1         *)
(* (y^2 = x^3 + 7 over a prime field, prime group order, cofactor 1), so   *)
(* that every point and scalar can be computed by TLC.  Python strings are *)
(* sequences of one-character strings; Python exceptions are the `exc'     *)
(* field of a result record ("" when the call returned).                   *)
(***************************************************************************)
EXTENDS Integers, Sequences, FiniteSets, TLC

(***************************************************************************)
(* Bound of the model: the scalars that secrets.randbelow(order) is        *)
(* allowed to return here are 0..MaxScalar.                                *)
(***************************************************************************)
MaxScalar == 3

\* The number of create_proof calls a prover makes with one private key.
MaxCalls == 2

(***************************************************************************)
(* Group parameters: CURVE = SECP256k1, GENERATOR, ORDER (scaled down).    *)
(***************************************************************************)
FIELD_P == 211

CURVE_A == 0

CURVE_B == 7

ORDER == 199

\* ecdsa's INFINITY is Point(None, None, None): x() and y() return None.
INFINITY == [inf |-> TRUE, x |-> 0, y |-> 0]

GENERATOR == [inf |-> FALSE, x |-> 3, y |-> 33]

\* The value of point.x() / point.y(): an int, or None for INFINITY.
PointX(pt) == IF pt.inf THEN [none |-> TRUE, val |-> 0] ELSE [none |-> FALSE, val |-> pt.x]

PointY(pt) == IF pt.inf THEN [none |-> TRUE, val |-> 0] ELSE [none |-> FALSE, val |-> pt.y]

(***************************************************************************)
(* Arithmetic layer: ecdsa.ellipticcurve, as called by zkp.py.             *)
(***************************************************************************)
\* numbertheory.inverse_mod(a, p); inverse_mod(0, p) is 0.
InverseTable == [a \in 0..(FIELD_P - 1) |->
                    IF a = 0 THEN 0
                    ELSE CHOOSE i \in 1..(FIELD_P - 1) : (a * i) % FIELD_P = 1]

inverse_mod(a) == InverseTable[a % FIELD_P]

\* CurveFp.contains_point(x, y)
contains_point(x, y) == (y * y - ((x * x + CURVE_A) * x + CURVE_B)) % FIELD_P = 0

\* Point.double()
PointDouble(pt) ==
    IF pt.inf THEN INFINITY
    ELSE LET l  == ((3 * pt.x * pt.x + CURVE_A) * inverse_mod(2 * pt.y)) % FIELD_P
             x3 == (l * l - 2 * pt.x) % FIELD_P
             y3 == (l * (pt.x - x3) - pt.y) % FIELD_P
         IN  IF l = 0 THEN INFINITY ELSE [inf |-> FALSE, x |-> x3, y |-> y3]

\* Point.__add__(self, other)
PointAdd(self, other) ==
    IF other.inf THEN self
    ELSE IF self.inf THEN other
    ELSE IF self.x = other.x
         THEN IF (self.y + other.y) % FIELD_P = 0 THEN INFINITY ELSE PointDouble(self)
    ELSE LET l  == ((other.y - self.y) * inverse_mod(other.x - self.x)) % FIELD_P
             x3 == (l * l - self.x - other.x) % FIELD_P
             y3 == (l * (self.x - x3) - self.y) % FIELD_P
         IN  [inf |-> FALSE, x |-> x3, y |-> y3]

\* Double-and-add for a scalar e >= 1.
RECURSIVE MulNat(_, _)
MulNat(e, pt) ==
    IF e = 1 THEN pt
    ELSE LET half == PointDouble(MulNat(e \div 2, pt))
         IN  IF e % 2 = 0 THEN half ELSE PointAdd(half, pt)

\* Point.__mul__ / __rmul__: e == 0 or e % order == 0 gives INFINITY, a
\* negative e multiplies the negated point; every point carries order ORDER.
PointMul(e, pt) ==
    IF pt.inf \/ e % ORDER = 0 THEN INFINITY ELSE MulNat(e % ORDER, pt)

\* k * self.generator (PointJacobi.__mul__): the same group element.
GeneratorTable == [k \in 0..(ORDER - 1) |-> PointMul(k, GENERATOR)]

GeneratorMul(k) == GeneratorTable[k % ORDER]

\* Point(self.curve.curve, x, y, self.order): asserts the point is on the curve.
NewPoint(x, y) ==
    IF contains_point(x, y)
    THEN [exc |-> "", pt |-> [inf |-> FALSE, x |-> x, y |-> y]]
    ELSE [exc |-> "AssertionError", pt |-> INFINITY]

(***************************************************************************)
(* Python built-ins on strings: int(s, 16), hex(n), bytes.hex(), zfill.    *)
(***************************************************************************)
\* The value None where a str is expected.
NoneStr == <<"<None>">>

LowerHex == <<"0", "1", "2", "3", "4", "5", "6", "7", "8", "9", "a", "b", "c", "d", "e", "f">>

UpperHex == <<"0", "1", "2", "3", "4", "5", "6", "7", "8", "9", "A", "B", "C", "D", "E", "F">>

\* The value of each hexadecimal digit, of either case.
HexDigitTable ==
    [c \in {LowerHex[i] : i \in 1..16} \cup {UpperHex[i] : i \in 1..16} |->
        IF \E i \in 1..16 : LowerHex[i] = c THEN (CHOOSE i \in 1..16 : LowerHex[i] = c) - 1
        ELSE (CHOOSE i \in 1..16 : UpperHex[i] = c) - 1]

\* The value of the character c as a hexadecimal digit, -1 if it is none.
DigitValue(c) == IF c \in DOMAIN HexDigitTable THEN HexDigitTable[c] ELSE -1

\* The number the first n digits denote.
RECURSIVE HexValueUpTo(_, _)
HexValueUpTo(digits, n) ==
    IF n = 0 THEN 0 ELSE 16 * HexValueUpTo(digits, n - 1) + DigitValue(digits[n])

HexValue(digits) == HexValueUpTo(digits, Len(digits))

\* The exception int(s, 16) raises ("" when it returns), for a string of any
\* length: optional sign, optional 0x/0X prefix, at least one hex digit.
PyInt16Error(s) ==
    IF s = NoneStr THEN "TypeError"
    ELSE LET signed   == Len(s) >= 1 /\ s[1] \in {"+", "-"}
             body     == IF signed THEN Tail(s) ELSE s
             prefixed == Len(body) >= 2 /\ body[1] = "0" /\ body[2] \in {"x", "X"}
             digits   == IF prefixed THEN SubSeq(body, 3, Len(body)) ELSE body
         IN  IF Len(digits) = 0 \/ \E i \in 1..Len(digits) : DigitValue(digits[i]) < 0
             THEN "ValueError"
             ELSE ""

\* int(s, 16): optional sign, optional 0x/0X prefix, at least one hex digit.
\* (Whitespace and underscores are outside the alphabet of the model.)
PyInt16(s) ==
    IF s = NoneStr THEN [exc |-> "TypeError", val |-> 0]
    ELSE LET signed   == Len(s) >= 1 /\ s[1] \in {"+", "-"}
             body     == IF signed THEN Tail(s) ELSE s
             prefixed == Len(body) >= 2 /\ body[1] = "0" /\ body[2] \in {"x", "X"}
             digits   == IF prefixed THEN SubSeq(body, 3, Len(body)) ELSE body
         IN  IF Len(digits) = 0 \/ \E i \in 1..Len(digits) : DigitValue(digits[i]) < 0
             THEN [exc |-> "ValueError", val |-> 0]
             ELSE [exc |-> "",
                   val |-> IF signed /\ s[1] = "-" THEN 0 - HexValue(digits)
                           ELSE HexValue(digits)]

RECURSIVE HexDigitsOf(_)
HexDigitsOf(n) ==
    IF n < 16 THEN <<LowerHex[n + 1]>>
    ELSE HexDigitsOf(n \div 16) \o <<LowerHex[(n % 16) + 1]>>

\* hex(n) for an int n; hex(None) raises TypeError.
PyHex(c) ==
    IF c.none THEN [exc |-> "TypeError", val |-> <<>>]
    ELSE [exc |-> "",
          val |-> IF c.val < 0 THEN <<"-", "0", "x">> \o HexDigitsOf(0 - c.val)
                  ELSE <<"0", "x">> \o HexDigitsOf(c.val)]

PyInt(n) == [none |-> FALSE, val |-> n]

\* ecdsa.util.orderlen(order): the byte length of the order.
orderlen(order) == (1 + Len(HexDigitsOf(order))) \div 2

RECURSIVE BigEndian(_, _)
BigEndian(n, l) ==
    IF l = 0 THEN <<>> ELSE BigEndian(n \div 256, l - 1) \o <<n % 256>>

\* ecdsa.util.number_to_string(num, order): "%0{2l}x" % num, unhexlified,
\* with the assertion that the result is l bytes long.
number_to_string(num, order) ==
    IF num.none THEN [exc |-> "TypeError", val |-> <<>>]
    ELSE IF num.val < 0 THEN [exc |-> "binascii.Error", val |-> <<>>]
    ELSE IF Len(HexDigitsOf(num.val)) > 2 * orderlen(order)
         THEN [exc |-> "AssertionError", val |-> <<>>]
    ELSE [exc |-> "", val |-> BigEndian(num.val, orderlen(order))]

\* bytes.hex()
RECURSIVE BytesHex(_)
BytesHex(bs) ==
    IF Len(bs) = 0 THEN <<>>
    ELSE <<LowerHex[(Head(bs) \div 16) + 1], LowerHex[(Head(bs) % 16) + 1]>> \o BytesHex(Tail(bs))

\* str.zfill(width) of an unsigned string
zfill(s, width) ==
    IF Len(s) >= width THEN s
    ELSE [i \in 1..width |-> IF i <= width - Len(s) THEN "0" ELSE s[i - (width - Len(s))]]

(***************************************************************************)
(* hashlib.sha256, modelled as a collision-free function.  The inputs the  *)
(* model can hash are the transcripts of the points and messages below; a  *)
(* digest is a multiple of the rank of the transcript among them, by a     *)
(* factor prime to ORDER, so that the digests exceed ORDER, the challenges *)
(* spread over [0, n-1], and different transcripts still have different    *)
(* challenges.                                                             *)
(***************************************************************************)
\* Messages bound into proofs; "<None>" stands for the value None.
Messages == <<"ZKP_AUTH:alice:1700000000", "ZKP_AUTH:bob:1700000000">>

NoneMessage == "<None>"

\* The scalars secrets.randbelow(self.order) returns in the model.
Sampled == 0..MaxScalar

\* The curve points the model's inputs are drawn from.
ModelPoints == {GeneratorMul(k) : k \in 1..MaxScalar}

Transcript(coords, message) == [coords |-> coords, msg |-> message]

HashDomain ==
    {Transcript(<<R.x, R.y, P.x, P.y>>, Messages[i]) :
        R \in ModelPoints, P \in ModelPoints, i \in 1..Len(Messages)}

MessageIndex(m) == CHOOSE i \in 1..Len(Messages) : Messages[i] = m

LexLess(a, b) ==
    \E i \in 1..Len(a) : a[i] < b[i] /\ \A j \in 1..(i - 1) : a[j] = b[j]

TranscriptLess(u, v) ==
    \/ LexLess(u.coords, v.coords)
    \/ u.coords = v.coords /\ MessageIndex(u.msg) < MessageIndex(v.msg)

TranscriptRank(u) == Cardinality({d \in HashDomain : TranscriptLess(d, u)})

\* string_to_number(hasher.digest())
Sha256(u) == TranscriptRank(u) * 37 + ORDER * (TranscriptRank(u) % 2)

(***************************************************************************)
(* ZKPService                                                              *)
(***************************************************************************)
\* _compute_challenge hashing the commitment in the place of the public key.
_compute_challenge_NoKey(commitment, public_key, message) ==
    LET rx == number_to_string(PointX(commitment), ORDER)
        ry == number_to_string(PointY(commitment), ORDER)
    IN  IF rx.exc # "" THEN [exc |-> rx.exc, val |-> 0]
        ELSE IF ry.exc # "" THEN [exc |-> ry.exc, val |-> 0]
        ELSE IF message = NoneMessage THEN [exc |-> "AttributeError", val |-> 0]
        ELSE [exc |-> "",
              val |-> Sha256(Transcript(rx.val \o ry.val \o rx.val \o ry.val, message)) % ORDER]

\* ZKPService._compute_challenge(commitment, public_key, message)
_compute_challenge(commitment, public_key, message) ==
    LET rx == number_to_string(PointX(commitment), ORDER)
        ry == number_to_string(PointY(commitment), ORDER)
        px == number_to_string(PointX(public_key), ORDER)
        py == number_to_string(PointY(public_key), ORDER)
    IN  IF rx.exc # "" THEN [exc |-> rx.exc, val |-> 0]
        ELSE IF ry.exc # "" THEN [exc |-> ry.exc, val |-> 0]
        ELSE IF px.exc # "" THEN [exc |-> px.exc, val |-> 0]
        ELSE IF py.exc # "" THEN [exc |-> py.exc, val |-> 0]
        ELSE IF message = NoneMessage THEN [exc |-> "AttributeError", val |-> 0]
        ELSE [exc |-> "",
              val |-> Sha256(Transcript(rx.val \o ry.val \o px.val \o py.val, message)) % ORDER]

\* ZKPService._point_to_hex(point)
_point_to_hex(point) ==
    LET x_bytes == number_to_string(PointX(point), ORDER)
        y_bytes == number_to_string(PointY(point), ORDER)
    IN  IF x_bytes.exc # "" THEN [exc |-> x_bytes.exc, val |-> <<>>]
        ELSE IF y_bytes.exc # "" THEN [exc |-> y_bytes.exc, val |-> <<>>]
        ELSE [exc |-> "",
              val |-> <<"0", "4">> \o zfill(BytesHex(x_bytes.val), 64)
                                   \o zfill(BytesHex(y_bytes.val), 64)]

\* _hex_to_point with the two coordinate slices taken in the wrong order.
_hex_to_point_Swapped(hex_str) ==
    IF hex_str = NoneStr THEN [exc |-> "AttributeError", pt |-> INFINITY]
    ELSE IF ~(Len(hex_str) >= 2 /\ hex_str[1] = "0" /\ hex_str[2] = "4") \/ Len(hex_str) # 130
         THEN [exc |-> "ValueError", pt |-> INFINITY]
    ELSE LET coords == SubSeq(hex_str, 3, Len(hex_str))
             x      == PyInt16(SubSeq(coords, 65, Len(coords)))
             y      == PyInt16(SubSeq(coords, 1, 64))
         IN  IF x.exc # "" THEN [exc |-> x.exc, pt |-> INFINITY]
             ELSE IF y.exc # "" THEN [exc |-> y.exc, pt |-> INFINITY]
             ELSE NewPoint(x.val, y.val)

\* ZKPService._hex_to_point(hex_str)
_hex_to_point(hex_str) ==
    IF hex_str = NoneStr THEN [exc |-> "AttributeError", pt |-> INFINITY]
    ELSE IF ~(Len(hex_str) >= 2 /\ hex_str[1] = "0" /\ hex_str[2] = "4") \/ Len(hex_str) # 130
         THEN [exc |-> "ValueError", pt |-> INFINITY]
    ELSE LET coords == SubSeq(hex_str, 3, Len(hex_str))
             x      == PyInt16(SubSeq(coords, 1, 64))
             y      == PyInt16(SubSeq(coords, 65, Len(coords)))
         IN  IF x.exc # "" THEN [exc |-> x.exc, pt |-> INFINITY]
             ELSE IF y.exc # "" THEN [exc |-> y.exc, pt |-> INFINITY]
             ELSE NewPoint(x.val, y.val)

\* ZKPService.create_authentication_message(username, timestamp)
create_authentication_message(username, timestamp) ==
    "ZKP_AUTH:" \o username \o ":" \o ToString(timestamp)

NoKeyPair == [private_key |-> 0, public_key |-> INFINITY, public_key_hex |-> NoneStr]

\* ZKPService.generate_keypair(), private_key being what randbelow returned.
generate_keypair(private_key) ==
    LET public_key     == GeneratorMul(private_key)
        public_key_hex == _point_to_hex(public_key)
    IN  IF public_key_hex.exc # "" THEN [exc |-> public_key_hex.exc, val |-> NoKeyPair]
        ELSE [exc |-> "",
              val |-> [private_key |-> private_key, public_key |-> public_key,
                       public_key_hex |-> public_key_hex.val]]

NoProof == [commitment_x |-> NoneStr, commitment_y |-> NoneStr, response |-> NoneStr,
            challenge |-> NoneStr, message |-> NoneMessage]

\* create_proof with the response left unreduced.
create_proof_NoMod(private_key, message, challenge, nonce) ==
    LET commitment     == GeneratorMul(nonce)
        public_key     == GeneratorMul(private_key)
        challenge_hash == IF challenge = NoneStr
                          THEN _compute_challenge(commitment, public_key, message)
                          ELSE PyInt16(challenge)
        response       == nonce + challenge_hash.val * private_key
        cx             == PyHex(PointX(commitment))
        cy             == PyHex(PointY(commitment))
    IN  IF challenge_hash.exc # "" THEN [exc |-> challenge_hash.exc, val |-> NoProof]
        ELSE IF cx.exc # "" THEN [exc |-> cx.exc, val |-> NoProof]
        ELSE IF cy.exc # "" THEN [exc |-> cy.exc, val |-> NoProof]
        ELSE [exc |-> "",
              val |-> [commitment_x |-> cx.val, commitment_y |-> cy.val,
                       response  |-> PyHex(PyInt(response)).val,
                       challenge |-> PyHex(PyInt(challenge_hash.val)).val,
                       message   |-> message]]

\* create_proof using the private key in the place of the sampled nonce.
create_proof_KeyAsNonce(private_key, message, challenge, nonce) ==
    LET commitment     == GeneratorMul(private_key)
        public_key     == GeneratorMul(private_key)
        challenge_hash == IF challenge = NoneStr
                          THEN _compute_challenge(commitment, public_key, message)
                          ELSE PyInt16(challenge)
        response       == (private_key + challenge_hash.val * private_key) % ORDER
        cx             == PyHex(PointX(commitment))
        cy             == PyHex(PointY(commitment))
    IN  IF challenge_hash.exc # "" THEN [exc |-> challenge_hash.exc, val |-> NoProof]
        ELSE IF cx.exc # "" THEN [exc |-> cx.exc, val |-> NoProof]
        ELSE IF cy.exc # "" THEN [exc |-> cy.exc, val |-> NoProof]
        ELSE [exc |-> "",
              val |-> [commitment_x |-> cx.val, commitment_y |-> cy.val,
                       response  |-> PyHex(PyInt(response)).val,
                       challenge |-> PyHex(PyInt(challenge_hash.val)).val,
                       message   |-> message]]

\* ZKPService.create_proof(private_key, message, challenge), nonce being what
\* randbelow returned; challenge = NoneStr is the default (no override).
create_proof(private_key, message, challenge, nonce) ==
    LET commitment     == GeneratorMul(nonce)
        public_key     == GeneratorMul(private_key)
        challenge_hash == IF challenge = NoneStr
                          THEN _compute_challenge(commitment, public_key, message)
                          ELSE PyInt16(challenge)
        response       == (nonce + challenge_hash.val * private_key) % ORDER
        cx             == PyHex(PointX(commitment))
        cy             == PyHex(PointY(commitment))
    IN  IF challenge_hash.exc # "" THEN [exc |-> challenge_hash.exc, val |-> NoProof]
        ELSE IF cx.exc # "" THEN [exc |-> cx.exc, val |-> NoProof]
        ELSE IF cy.exc # "" THEN [exc |-> cy.exc, val |-> NoProof]
        ELSE [exc |-> "",
              val |-> [commitment_x |-> cx.val, commitment_y |-> cy.val,
                       response  |-> PyHex(PyInt(response)).val,
                       challenge |-> PyHex(PyInt(challenge_hash.val)).val,
                       message   |-> message]]

NoSteps == [exc |-> "", commitment |-> INFINITY, response |-> 0, challenge |-> 0,
            public_key |-> INFINITY, expected_challenge |-> 0,
            left_side |-> INFINITY, right_side |-> INFINITY]

\* The statements in the try block of verify_proof up to the two checks: the
\* first exception raised (exc), or the values computed.
verify_steps(proof_data, public_key_hex) ==
    LET cx         == PyInt16(proof_data.commitment_x)
        cy         == PyInt16(proof_data.commitment_y)
        commitment == NewPoint(cx.val, cy.val)
        response   == PyInt16(proof_data.response)
        challenge  == PyInt16(proof_data.challenge)
        public_key == _hex_to_point(public_key_hex)
        expected   == _compute_challenge(commitment.pt, public_key.pt, proof_data.message)
    IN  IF cx.exc # "" THEN [NoSteps EXCEPT !.exc = cx.exc]
        ELSE IF cy.exc # "" THEN [NoSteps EXCEPT !.exc = cy.exc]
        ELSE IF commitment.exc # "" THEN [NoSteps EXCEPT !.exc = commitment.exc]
        ELSE IF response.exc # "" THEN [NoSteps EXCEPT !.exc = response.exc]
        ELSE IF challenge.exc # "" THEN [NoSteps EXCEPT !.exc = challenge.exc]
        ELSE IF public_key.exc # "" THEN [NoSteps EXCEPT !.exc = public_key.exc]
        ELSE IF expected.exc # "" THEN [NoSteps EXCEPT !.exc = expected.exc]
        ELSE [exc |-> "", commitment |-> commitment.pt, response |-> response.val,
              challenge |-> challenge.val, public_key |-> public_key.pt,
              expected_challenge |-> expected.val,
              left_side  |-> GeneratorMul(response.val),
              right_side |-> PointAdd(commitment.pt, PointMul(challenge.val, public_key.pt))]

\* verify_proof with the equation check left out.
verify_proof_NoEquation(proof_data, public_key_hex) ==
    LET s == verify_steps(proof_data, public_key_hex)
    IN  IF s.exc # "" THEN [exc |-> "", val |-> FALSE]
        ELSE IF s.challenge # s.expected_challenge THEN [exc |-> "", val |-> FALSE]
        ELSE [exc |-> "", val |-> TRUE]

\* verify_proof trusting the challenge the proof states.
verify_proof_NoChallenge(proof_data, public_key_hex) ==
    LET s == verify_steps(proof_data, public_key_hex)
    IN  IF s.exc # "" THEN [exc |-> "", val |-> FALSE]
        ELSE IF PointX(s.left_side) # PointX(s.right_side)
                \/ PointY(s.left_side) # PointY(s.right_side)
             THEN [exc |-> "", val |-> FALSE]
        ELSE [exc |-> "", val |-> TRUE]

\* verify_proof with an except clause for ValueError only.
verify_proof_Uncaught(proof_data, public_key_hex) ==
    LET s == verify_steps(proof_data, public_key_hex)
    IN  IF s.exc = "ValueError" THEN [exc |-> "", val |-> FALSE]
        ELSE IF s.exc # "" THEN [exc |-> s.exc, val |-> FALSE]
        ELSE IF s.challenge # s.expected_challenge THEN [exc |-> "", val |-> FALSE]
        ELSE IF PointX(s.left_side) # PointX(s.right_side)
                \/ PointY(s.left_side) # PointY(s.right_side)
             THEN [exc |-> "", val |-> FALSE]
        ELSE [exc |-> "", val |-> TRUE]

\* verify_proof decoding the public key before the try block.
verify_proof_KeyOutsideTry(proof_data, public_key_hex) ==
    LET s == verify_steps(proof_data, public_key_hex)
    IN  IF _hex_to_point(public_key_hex).exc # ""
        THEN [exc |-> _hex_to_point(public_key_hex).exc, val |-> FALSE]
        ELSE IF s.exc # "" THEN [exc |-> "", val |-> FALSE]
        ELSE IF s.challenge # s.expected_challenge THEN [exc |-> "", val |-> FALSE]
        ELSE IF PointX(s.left_side) # PointX(s.right_side)
                \/ PointY(s.left_side) # PointY(s.right_side)
             THEN [exc |-> "", val |-> FALSE]
        ELSE [exc |-> "", val |-> TRUE]

\* The two checks of verify_proof on the values s the try block computed, and
\* what the call returns.
verify_checks(s) ==
    IF s.exc # "" THEN [exc |-> "", val |-> FALSE]
    ELSE IF s.challenge # s.expected_challenge THEN [exc |-> "", val |-> FALSE]
    ELSE IF PointX(s.left_side) # PointX(s.right_side)
            \/ PointY(s.left_side) # PointY(s.right_side)
         THEN [exc |-> "", val |-> FALSE]
    ELSE [exc |-> "", val |-> TRUE]

\* ZKPService.verify_proof(proof_data, public_key_hex): every exception of
\* the try block is caught and turned into False.
verify_proof(proof_data, public_key_hex) ==
    verify_checks(verify_steps(proof_data, public_key_hex))

(***************************************************************************)
(* Proof dicts as AuthService receives them: every key is a field of the   *)
(* record, and a key the dict does not have holds the Absent value of its  *)
(* type.  Lists of strings are sequences of strings.                       *)
(***************************************************************************)
AbsentStr == <<"<absent>">>

AbsentMessage == "<absent>"

AbsentList == <<AbsentStr>>

NoneList == <<NoneStr>>

SchnorrFields == {"commitment_x", "commitment_y", "response", "challenge", "message"}

Absent(field) ==
    IF field = "message" THEN AbsentMessage
    ELSE IF field \in {"proof", "public_signals"} THEN AbsentList
    ELSE AbsentStr

\* field in proof
HasKey(d, field) == d[field] # Absent(field)

\* len(v): None has no len()
PyLen(list) == IF list = NoneList THEN [exc |-> "TypeError", val |-> 0]
               ELSE [exc |-> "", val |-> Len(list)]

\* bool(v) of a list or None
Truthy(list) == list # NoneList /\ Len(list) > 0

ProofDataOf(d) ==
    [commitment_x |-> d.commitment_x, commitment_y |-> d.commitment_y,
     response |-> d.response, challenge |-> d.challenge, message |-> d.message]

\* parse_legacy_proof filling a missing second element with "0x0".
parse_legacy_proof_OneElement(legacy_proof) ==
    LET proof_array    == IF HasKey(legacy_proof, "proof")
                          THEN legacy_proof.proof ELSE <<>>
        public_signals == IF HasKey(legacy_proof, "public_signals")
                          THEN legacy_proof.public_signals ELSE <<>>
        second(list)   == IF Len(list) > 1 THEN list[2] ELSE <<"0", "x", "0">>
    IN  IF HasKey(legacy_proof, "commitment_x") THEN [none |-> TRUE, val |-> NoProof]
        ELSE IF PyLen(proof_array).exc # "" \/ PyLen(public_signals).exc # ""
             THEN [none |-> TRUE, val |-> NoProof]
        ELSE IF PyLen(proof_array).val < 1 \/ PyLen(public_signals).val < 1
             THEN [none |-> TRUE, val |-> NoProof]
        ELSE [none |-> FALSE,
              val |-> [commitment_x |-> proof_array[1],
                       commitment_y |-> second(proof_array),
                       response     |-> public_signals[1],
                       challenge    |-> second(public_signals),
                       message      |-> "legacy_format"]]

\* ZKPService.parse_legacy_proof(legacy_proof): a ZKPProofData, or None.
parse_legacy_proof(legacy_proof) ==
    IF HasKey(legacy_proof, "commitment_x")
    THEN \* ZKPProofData(**legacy_proof): TypeError unless the keys are exactly the five
         IF (\A f \in SchnorrFields : HasKey(legacy_proof, f))
            /\ ~HasKey(legacy_proof, "proof") /\ ~HasKey(legacy_proof, "public_signals")
         THEN [none |-> FALSE, val |-> ProofDataOf(legacy_proof)]
         ELSE [none |-> TRUE, val |-> NoProof]
    ELSE LET proof_array    == IF HasKey(legacy_proof, "proof")
                               THEN legacy_proof.proof ELSE <<>>
             public_signals == IF HasKey(legacy_proof, "public_signals")
                               THEN legacy_proof.public_signals ELSE <<>>
         IN  IF PyLen(proof_array).exc # "" THEN [none |-> TRUE, val |-> NoProof]
             ELSE IF PyLen(proof_array).val < 2 THEN [none |-> TRUE, val |-> NoProof]
             ELSE IF PyLen(public_signals).exc # "" THEN [none |-> TRUE, val |-> NoProof]
             ELSE IF PyLen(public_signals).val < 2 THEN [none |-> TRUE, val |-> NoProof]
             ELSE [none |-> FALSE,
                   val |-> [commitment_x |-> proof_array[1],
                            commitment_y |-> proof_array[2],
                            response     |-> public_signals[1],
                            challenge    |-> public_signals[2],
                            message      |-> "legacy_format"]]

\* AuthService.verify_zkp_proof(proof, public_key, identifier)
verify_zkp_proof(proof, public_key, identifier) ==
    IF public_key = NoneStr THEN FALSE            \* public_key[:20] raises, caught
    ELSE IF \A f \in SchnorrFields : HasKey(proof, f)
         THEN verify_proof(ProofDataOf(proof), public_key).val
    ELSE LET legacy_proof == parse_legacy_proof(proof)
         IN  IF ~legacy_proof.none /\ legacy_proof.val.message = "legacy_format"
             THEN IF ~(HasKey(proof, "proof") /\ HasKey(proof, "public_signals")) THEN FALSE
                  ELSE IF ~Truthy(proof.proof) \/ ~Truthy(proof.public_signals) THEN FALSE
                  ELSE TRUE
             ELSE FALSE

(***************************************************************************)
(* State: the objects a caller of the service holds, as in                 *)
(* measure_zkp_performance_iterations (generate a key pair, create a proof *)
(* for its private key, verify it) and in login/registration (the proof    *)
(* dict and the public key handed to verify_zkp_proof).                    *)
(***************************************************************************)
VARIABLES
    keypair,          \* result of the last generate_keypair call
    proof,            \* result of the last create_proof call, as later altered in transit
    made,             \* the arguments and the nonce of that create_proof call
    tamper,           \* how the proof was altered since: the field, and the proof before
    public_key_hex,   \* the public key string handed to the verifier
    result,           \* result of verify_proof(proof, public_key_hex), once called
    auth,             \* the last verify_zkp_proof call and its result
    calls,            \* the create_proof calls made with keypair's private key, in order
    codec,            \* the input of a codec call, and what the calls made on it returned
    users,            \* the rows of the users table
    api,              \* the last request to /auth/register or /auth/login, and the response
    service,          \* the attributes of the shared ZKPService instance
    threads,          \* per thread, the call it is executing on the shared instance
    hashing,          \* two _compute_challenge calls: their inputs and what they hashed and returned
    legacy,           \* a parse_legacy_proof call: the dict given and what it returned
    tasks,            \* per asyncio task, the create_user call it is running
    deps,             \* the last call of get_current_user
    files,            \* the files table
    perms,            \* the file_permissions table
    accounts,         \* users.storage_used of each user
    clock,            \* the current time, in hours
    uploads,          \* per asyncio task, the upload request it is serving
    shares            \* per asyncio task, the share_file call it is running

\* The state of the proof engine, of the register and login endpoints and of
\* the calls on the shared instance.
core == <<keypair, proof, made, tamper, public_key_hex, result, auth, calls, codec, users, api,
          service, threads>>

\* The state of the other operations.
ext == <<hashing, legacy, tasks, deps, files, perms, accounts, clock, uploads, shares>>

vars == <<core, ext>>

\* What the callers of generate_keypair/create_proof/verify_proof leave alone.
aux == <<auth, calls, codec, users, api, service, threads, ext>>

Unset == "unset"

NoResult == [exc |-> Unset, val |-> FALSE]

NoTamper == [field |-> "none", from |-> NoProof]

NoMade == [private_key |-> 0, message |-> NoneMessage, challenge |-> NoneStr, nonce |-> 0]

NoDict == [commitment_x |-> AbsentStr, commitment_y |-> AbsentStr, response |-> AbsentStr,
           challenge |-> AbsentStr, message |-> AbsentMessage,
           proof |-> AbsentList, public_signals |-> AbsentList]

NoAuth == [called |-> FALSE, proof |-> NoDict, public_key |-> NoneStr, val |-> FALSE]

NoCodec == [kind |-> "none", stage |-> "input", point |-> INFINITY, scalar |-> 0,
            str |-> NoneStr, exc |-> "", pt |-> INFINITY, val |-> 0]

\* The challenge argument of create_proof: None, or a test override.
Overrides == {NoneStr, <<"0", "x", "0">>, <<"0", "x", "5">>}

\* A str with one character replaced.
ReplaceAt(str, i, c) == [str EXCEPT ![i] = c]

\* The public key strings a verifier may be handed for the key pair kp.
PublicKeyInputs(kp) ==
    {_point_to_hex(P).val : P \in ModelPoints}
    \cup {SubSeq(kp.public_key_hex, 1, 129),                  \* 129 characters
          kp.public_key_hex \o <<"0">>,                       \* 131 characters
          ReplaceAt(kp.public_key_hex, 2, "5"),               \* wrong tag
          ReplaceAt(kp.public_key_hex, 10, "z"),              \* not hexadecimal
          ReplaceAt(kp.public_key_hex, 130, "1"),             \* not on the curve
          ReplaceAt(kp.public_key_hex, 4, "x"),               \* x written as 0x...
          NoneStr}

\* Field values that do not decode.
Malformed == {NoneStr, <<"0", "x", "z">>, <<>>}

HexFields == {"commitment_x", "commitment_y", "response", "challenge"}

\* The scalars a response or challenge v may be replaced by.
OtherScalars(v) ==
    ({(v + 1) % ORDER, v % ORDER}
        \cup (IF v < ORDER THEN {v + ORDER} ELSE {})
        \cup (IF v >= 0 THEN {v - ORDER} ELSE {})) \ {v}

\* The proofs that differ from the accepted proof pd in exactly one field.
Tamperings(pd) ==
    LET R == NewPoint(PyInt16(pd.commitment_x).val, PyInt16(pd.commitment_y).val).pt
        s == PyInt16(pd.response).val
        c == PyInt16(pd.challenge).val
    IN  {[field |-> "commitment",
          val |-> [pd EXCEPT !.commitment_x = PyHex(PointX(Q)).val,
                             !.commitment_y = PyHex(PointY(Q)).val]] :
            Q \in ModelPoints \ {R}}
        \cup {[field |-> "response", val |-> [pd EXCEPT !.response = PyHex(PyInt(v)).val]] :
                v \in OtherScalars(s)}
        \cup {[field |-> "challenge", val |-> [pd EXCEPT !.challenge = PyHex(PyInt(v)).val]] :
                v \in OtherScalars(c)}
        \cup {[field |-> "message", val |-> [pd EXCEPT !.message = Messages[i]]] :
                i \in {j \in 1..Len(Messages) : Messages[j] # pd.message}}

LegacyLists == {<<>>, <<<<"0", "x", "1">>>>, <<<<"0", "x", "1">>, <<"0", "x", "2">>>>, NoneList}

\* The dict of a Schnorr proof.
SchnorrDict(pd) ==
    [NoDict EXCEPT !.commitment_x = pd.commitment_x, !.commitment_y = pd.commitment_y,
                   !.response = pd.response, !.challenge = pd.challenge,
                   !.message = pd.message]

\* zkp_proof.model_dump() in the router: every field of ZKPProof is a key,
\* None when the request left it out.
ModelDump(d) ==
    [f \in DOMAIN d |->
        IF HasKey(d, f) THEN d[f]
        ELSE IF f = "message" THEN NoneMessage
        ELSE IF f \in {"proof", "public_signals"} THEN NoneList
        ELSE NoneStr]

LegacyDicts ==
    {[NoDict EXCEPT !.proof = a, !.public_signals = b] : a \in LegacyLists, b \in LegacyLists}

\* The proof dicts handed to verify_zkp_proof.
ProofDicts ==
    LegacyDicts
    \cup {ModelDump(d) : d \in LegacyDicts}
    \cup (IF proof.exc = ""
          THEN {SchnorrDict(proof.val), ModelDump(SchnorrDict(proof.val)),
                [SchnorrDict(proof.val) EXCEPT !.message = AbsentMessage],
                [NoDict EXCEPT !.commitment_x = proof.val.commitment_x,
                               !.proof = <<<<"0", "x", "1">>, <<"0", "x", "2">>>>,
                               !.public_signals = <<<<"0", "x", "1">>, <<"0", "x", "2">>>>]}
          ELSE {})

(***************************************************************************)
(* The request schemas (pydantic) and the handlers of /auth/register and   *)
(* /auth/login.  The users table is a set of rows; usernames and emails    *)
(* are strings; the id of a row (a uuid4) is represented by its username,  *)
(* which the table keeps as unique.                                        *)
(***************************************************************************)
\* The value None of the type of a ZKPProof field.
NoneOf(field) ==
    IF field = "message" THEN NoneMessage
    ELSE IF field \in {"proof", "public_signals"} THEN NoneList
    ELSE NoneStr

\* ZKPProof.validate_hex_fields(v), v being None when the request omits it
validate_hex_fields(v) ==
    IF v = NoneStr \/ v = AbsentStr THEN ""
    ELSE IF ~(Len(v) >= 2 /\ v[1] = "0" /\ v[2] = "x") THEN "ValidationError"
    ELSE IF PyInt16Error(v) # "" THEN "ValidationError"
    ELSE ""

\* Validation of a ZKPProof: the field validators, then model_post_init.
ZKPProof(d) ==
    LET given(f)    == HasKey(d, f) /\ d[f] # NoneOf(f)
        has_legacy  == given("proof") /\ given("public_signals")
        has_schnorr == \A f \in SchnorrFields : given(f)
    IN  IF \E f \in HexFields : validate_hex_fields(d[f]) # "" THEN "ValidationError"
        ELSE IF ~has_legacy /\ ~has_schnorr THEN "ValidationError"
        ELSE ""

\* The strings of the model that match UserRegistrationRequest's email_pattern.
EmailPattern == {"alice@example.com", "bob@example.com", "carol@example.com"}

\* UserRegistrationRequest.validate_email(v)
validate_email(v) == IF v \in EmailPattern THEN "" ELSE "ValidationError"

\* UserRegistrationRequest.validate_public_key(v)
validate_public_key(v) ==
    IF ~(Len(v) >= 2 /\ v[1] = "0" /\ v[2] = "4") THEN "ValidationError"
    ELSE IF Len(v) # 130 THEN "ValidationError"
    ELSE IF PyInt16Error(v) # "" THEN "ValidationError"
    ELSE ""

\* Validation of a UserRegistrationRequest body.
UserRegistrationRequest(req) ==
    IF ~(Len(req.username) >= 3 /\ Len(req.username) <= 50) THEN "ValidationError"
    ELSE IF validate_email(req.email) # "" THEN "ValidationError"
    ELSE IF validate_public_key(req.public_key) # "" THEN "ValidationError"
    ELSE ZKPProof(req.zkp_proof)

\* Validation of a UserLoginRequest body.
UserLoginRequest(req) == ZKPProof(req.zkp_proof)

\* AuthService._validate_public_key_format(public_key)
_validate_public_key_format(public_key) ==
    IF public_key = NoneStr THEN FALSE
    ELSE IF ~(Len(public_key) >= 2 /\ public_key[1] = "0" /\ public_key[2] = "4")
            \/ Len(public_key) # 130
         THEN FALSE
    ELSE _hex_to_point(public_key).exc = ""

NoUser == [id |-> "", username |-> "", email |-> "", public_key |-> NoneStr,
           is_active |-> FALSE, is_verified |-> FALSE]

\* result.scalar_one_or_none() of a select: the row, None, or MultipleResultsFound
scalar_one_or_none(rows) ==
    IF Cardinality(rows) > 1 THEN [exc |-> "MultipleResultsFound", none |-> TRUE, row |-> NoUser]
    ELSE IF rows = {} THEN [exc |-> "", none |-> TRUE, row |-> NoUser]
    ELSE [exc |-> "", none |-> FALSE, row |-> CHOOSE u \in rows : TRUE]

\* authenticate_user without the is_active check.
authenticate_user_NoActiveCheck(db, identifier, zkp_proof) ==
    LET user == scalar_one_or_none({u \in db : u.username = identifier \/ u.email = identifier})
    IN  IF user.exc # "" THEN [exc |-> user.exc, user |-> NoUser]
        ELSE IF user.none THEN [exc |-> "UserNotFoundException", user |-> NoUser]
        ELSE IF ~verify_zkp_proof(zkp_proof, user.row.public_key, identifier)
             THEN [exc |-> "ZKPVerificationFailedException", user |-> NoUser]
        ELSE [exc |-> "", user |-> user.row]

\* AuthService.authenticate_user(db, identifier, zkp_proof)
authenticate_user(db, identifier, zkp_proof) ==
    LET user == scalar_one_or_none({u \in db : u.username = identifier \/ u.email = identifier})
    IN  IF user.exc # "" THEN [exc |-> user.exc, user |-> NoUser]
        ELSE IF user.none THEN [exc |-> "UserNotFoundException", user |-> NoUser]
        ELSE IF ~user.row.is_active
             THEN [exc |-> "AuthenticationFailedException", user |-> NoUser]
        ELSE IF ~verify_zkp_proof(zkp_proof, user.row.public_key, identifier)
             THEN [exc |-> "ZKPVerificationFailedException", user |-> NoUser]
        ELSE [exc |-> "", user |-> user.row]

\* AuthService.create_user(db, username, email, public_key, zkp_proof): the
\* exception raised or the user created, and the table after the call.
create_user(db, username, email, public_key, zkp_proof) ==
    LET existing_user == scalar_one_or_none({u \in db : u.username = username \/ u.email = email})
        user          == [id |-> username, username |-> username, email |-> email,
                          public_key |-> public_key, is_active |-> TRUE, is_verified |-> FALSE]
    IN  IF ~verify_zkp_proof(zkp_proof, public_key, username)
        THEN [exc |-> "ZKPVerificationFailedException", user |-> NoUser, db |-> db]
        ELSE IF existing_user.exc # ""
             THEN [exc |-> existing_user.exc, user |-> NoUser, db |-> db]
        ELSE IF ~existing_user.none
             THEN [exc |-> "AuthenticationFailedException", user |-> NoUser, db |-> db]
        ELSE IF ~_validate_public_key_format(public_key)
             THEN [exc |-> "AuthenticationFailedException", user |-> NoUser, db |-> db]
        ELSE [exc |-> "", user |-> user, db |-> db \cup {user}]

NoToken == [sub |-> "", username |-> ""]

\* AuthService.create_access_token(data): the claims the token carries.
create_access_token(data) == data

\* The HTTP status of a response that reports the exception exc.
StatusOf(exc) ==
    IF exc = "ValidationError" THEN 422
    ELSE IF exc = "UserNotFoundException" THEN 404
    ELSE IF exc \in {"AuthenticationFailedException", "ZKPVerificationFailedException"} THEN 401
    ELSE 500

\* The response of register_user after create_user returned or raised.
registered(user, db) ==
    IF user.exc # ""
    THEN [status |-> StatusOf(user.exc), exc |-> user.exc, token |-> NoToken, db |-> db]
    ELSE [status |-> 201, exc |-> "", token |-> NoToken, db |-> user.db]

\* register_user(request, db): FastAPI validates the body, then the handler
\* runs; the response and the users table afterwards.
register_user(request, db) ==
    IF UserRegistrationRequest(request) # ""
    THEN [status |-> 422, exc |-> "ValidationError", token |-> NoToken, db |-> db]
    ELSE registered(create_user(db, request.username, request.email, request.public_key,
                                ModelDump(request.zkp_proof)), db)

\* The response of login_user after authenticate_user returned or raised.
logged_in(user, db) ==
    IF user.exc # ""
    THEN [status |-> StatusOf(user.exc), exc |-> user.exc, token |-> NoToken, db |-> db]
    ELSE [status |-> 200, exc |-> "",
          token |-> create_access_token([sub |-> user.user.id,
                                         username |-> user.user.username]),
          db |-> db]

\* login_user(request, db)
login_user(request, db) ==
    IF UserLoginRequest(request) # ""
    THEN [status |-> 422, exc |-> "ValidationError", token |-> NoToken, db |-> db]
    ELSE logged_in(authenticate_user(db, request.identifier, ModelDump(request.zkp_proof)),
                   db)

NoRequest == [username |-> "", email |-> "", identifier |-> "", public_key |-> NoneStr,
              zkp_proof |-> NoDict]

NoApi == [op |-> "none", request |-> NoRequest, status |-> 0, exc |-> "", token |-> NoToken]

(***************************************************************************)
(* The shared instance zkp_service and the calls threads make on it.  A    *)
(* call is executed statement by statement; every statement reads the      *)
(* attributes of the instance as they are when it runs.                    *)
(***************************************************************************)
\* CURVE.curve: the parameters of the curve equation.
CURVE == [p |-> FIELD_P, a |-> CURVE_A, b |-> CURVE_B]

\* zkp_service = ZKPService(): the attributes __init__ sets.
zkp_service == [curve |-> CURVE, generator |-> GENERATOR, order |-> ORDER]

Threads == {1, 2}

\* The frame of a call: op and pc say which statement runs next; the
\* arguments, the locals and, once done, the outcome.  interleaved records
\* that another thread ran a statement while this call was in progress.
NoFrame == [op |-> "idle", pc |-> 0, done |-> FALSE, interleaved |-> FALSE,
            private_key |-> 0, message |-> NoneMessage, challenge_arg |-> NoneStr,
            proof_data |-> NoProof, public_key_hex |-> NoneStr,
            nonce |-> 0, commitment |-> INFINITY, public_key |-> INFINITY,
            challenge_hash |-> 0, response |-> 0, challenge |-> 0, left_side |-> INFINITY,
            exc |-> "", keypair |-> NoKeyPair, proof |-> NoProof, valid |-> FALSE]

\* Point(self.curve.curve, x, y, self.order)
Point(self, x, y) ==
    IF (y * y - ((x * x + self.curve.a) * x + self.curve.b)) % self.curve.p = 0
    THEN [exc |-> "", pt |-> [inf |-> FALSE, x |-> x, y |-> y]]
    ELSE [exc |-> "AssertionError", pt |-> INFINITY]

\* self._point_to_hex(point), reading self.order
_point_to_hex_self(self, point) ==
    LET x_bytes == number_to_string(PointX(point), self.order)
        y_bytes == number_to_string(PointY(point), self.order)
    IN  IF x_bytes.exc # "" THEN [exc |-> x_bytes.exc, val |-> <<>>]
        ELSE IF y_bytes.exc # "" THEN [exc |-> y_bytes.exc, val |-> <<>>]
        ELSE [exc |-> "",
              val |-> <<"0", "4">> \o zfill(BytesHex(x_bytes.val), 64)
                                   \o zfill(BytesHex(y_bytes.val), 64)]

\* self._hex_to_point(hex_str), reading self.curve and self.order
_hex_to_point_self(self, hex_str) ==
    IF hex_str = NoneStr THEN [exc |-> "AttributeError", pt |-> INFINITY]
    ELSE IF ~(Len(hex_str) >= 2 /\ hex_str[1] = "0" /\ hex_str[2] = "4") \/ Len(hex_str) # 130
         THEN [exc |-> "ValueError", pt |-> INFINITY]
    ELSE LET coords == SubSeq(hex_str, 3, Len(hex_str))
             x      == PyInt16(SubSeq(coords, 1, 64))
             y      == PyInt16(SubSeq(coords, 65, Len(coords)))
         IN  IF x.exc # "" THEN [exc |-> x.exc, pt |-> INFINITY]
             ELSE IF y.exc # "" THEN [exc |-> y.exc, pt |-> INFINITY]
             ELSE Point(self, x.val, y.val)

\* self._compute_challenge(commitment, public_key, message), reading self.order
_compute_challenge_self(self, commitment, public_key, message) ==
    LET rx == number_to_string(PointX(commitment), self.order)
        ry == number_to_string(PointY(commitment), self.order)
        px == number_to_string(PointX(public_key), self.order)
        py == number_to_string(PointY(public_key), self.order)
    IN  IF rx.exc # "" THEN [exc |-> rx.exc, val |-> 0]
        ELSE IF ry.exc # "" THEN [exc |-> ry.exc, val |-> 0]
        ELSE IF px.exc # "" THEN [exc |-> px.exc, val |-> 0]
        ELSE IF py.exc # "" THEN [exc |-> py.exc, val |-> 0]
        ELSE IF message = NoneMessage THEN [exc |-> "AttributeError", val |-> 0]
        ELSE [exc |-> "",
              val |-> Sha256(Transcript(rx.val \o ry.val \o px.val \o py.val, message))
                        % self.order]

\* The call ends by raising exc.
Raised(f, exc) == [f EXCEPT !.done = TRUE, !.exc = exc]

\* The next statement of generate_keypair in frame f; r is what
\* secrets.randbelow(self.order) returns when it is the statement.
generate_keypair_step(self, f, r) ==
    [self  |-> self,
     frame |-> CASE f.pc = 1 -> [f EXCEPT !.pc = 2, !.private_key = r]
                 [] f.pc = 2 -> [f EXCEPT !.pc = 3,
                                          !.public_key = PointMul(f.private_key, self.generator)]
                 [] OTHER ->
                        LET key_hex == _point_to_hex_self(self, f.public_key)
                        IN  IF key_hex.exc # "" THEN Raised(f, key_hex.exc)
                            ELSE [f EXCEPT !.done = TRUE,
                                           !.keypair = [private_key |-> f.private_key,
                                                        public_key |-> f.public_key,
                                                        public_key_hex |-> key_hex.val]]]

\* create_proof_step with the commitment computed in place, in the attribute.
create_proof_step_InPlace(self, f, r) ==
    LET commitment == PointMul(f.nonce, self.generator)
    IN  [self  |-> IF f.pc = 2 THEN [self EXCEPT !.generator = commitment] ELSE self,
         frame |-> CASE f.pc = 1 -> [f EXCEPT !.pc = 2, !.nonce = r]
                     [] f.pc = 2 -> [f EXCEPT !.pc = 3, !.commitment = commitment]
                     [] f.pc = 3 -> [f EXCEPT !.pc = 4,
                                              !.public_key = PointMul(f.private_key, self.generator)]
                     [] OTHER -> Raised(f, "")]

\* The next statement of create_proof in frame f; r is what
\* secrets.randbelow(self.order) returns when it is the statement.
create_proof_step(self, f, r) ==
    [self  |-> self,
     frame |-> CASE f.pc = 1 -> [f EXCEPT !.pc = 2, !.nonce = r]
                 [] f.pc = 2 -> [f EXCEPT !.pc = 3,
                                          !.commitment = PointMul(f.nonce, self.generator)]
                 [] f.pc = 3 -> [f EXCEPT !.pc = 4,
                                          !.public_key = PointMul(f.private_key, self.generator)]
                 [] f.pc = 4 ->
                        LET challenge_hash ==
                                IF f.challenge_arg = NoneStr
                                THEN _compute_challenge_self(self, f.commitment, f.public_key,
                                                             f.message)
                                ELSE PyInt16(f.challenge_arg)
                        IN  IF challenge_hash.exc # "" THEN Raised(f, challenge_hash.exc)
                            ELSE [f EXCEPT !.pc = 5, !.challenge_hash = challenge_hash.val]
                 [] f.pc = 5 -> [f EXCEPT !.pc = 6,
                                          !.response = (f.nonce + f.challenge_hash * f.private_key)
                                                            % self.order]
                 [] OTHER ->
                        LET cx == PyHex(PointX(f.commitment))
                            cy == PyHex(PointY(f.commitment))
                        IN  IF cx.exc # "" THEN Raised(f, cx.exc)
                            ELSE IF cy.exc # "" THEN Raised(f, cy.exc)
                            ELSE [f EXCEPT !.done = TRUE,
                                           !.proof = [commitment_x |-> cx.val,
                                                      commitment_y |-> cy.val,
                                                      response  |-> PyHex(PyInt(f.response)).val,
                                                      challenge |-> PyHex(PyInt(f.challenge_hash)).val,
                                                      message   |-> f.message]]]

\* The call ends with return v.
Returned(f, v) == [f EXCEPT !.done = TRUE, !.valid = v]

\* The next statement of verify_proof in frame f; an exception in the try
\* block is caught and the call returns False.
verify_proof_step(self, f) ==
    [self  |-> self,
     frame |-> CASE f.pc = 1 ->
                        LET cx == PyInt16(f.proof_data.commitment_x)
                            cy == PyInt16(f.proof_data.commitment_y)
                            commitment == Point(self, cx.val, cy.val)
                        IN  IF cx.exc # "" \/ cy.exc # "" \/ commitment.exc # ""
                            THEN Returned(f, FALSE)
                            ELSE [f EXCEPT !.pc = 2, !.commitment = commitment.pt]
                 [] f.pc = 2 ->
                        LET response   == PyInt16(f.proof_data.response)
                            challenge  == PyInt16(f.proof_data.challenge)
                            public_key == _hex_to_point_self(self, f.public_key_hex)
                        IN  IF response.exc # "" \/ challenge.exc # "" \/ public_key.exc # ""
                            THEN Returned(f, FALSE)
                            ELSE [f EXCEPT !.pc = 3, !.response = response.val,
                                           !.challenge = challenge.val,
                                           !.public_key = public_key.pt]
                 [] f.pc = 3 ->
                        LET expected_challenge ==
                                _compute_challenge_self(self, f.commitment, f.public_key,
                                                        f.proof_data.message)
                        IN  IF expected_challenge.exc # "" THEN Returned(f, FALSE)
                            ELSE IF f.challenge # expected_challenge.val THEN Returned(f, FALSE)
                            ELSE [f EXCEPT !.pc = 4]
                 [] f.pc = 4 -> [f EXCEPT !.pc = 5,
                                          !.left_side = PointMul(f.response, self.generator)]
                 [] OTHER ->
                        LET right_side == PointAdd(f.commitment,
                                                   PointMul(f.challenge, f.public_key))
                        IN  IF PointX(f.left_side) # PointX(right_side)
                                \/ PointY(f.left_side) # PointY(right_side)
                            THEN Returned(f, FALSE)
                            ELSE Returned(f, TRUE)]

(***************************************************************************)
(* The byte string _compute_challenge hands to the hasher.                 *)
(***************************************************************************)
\* Runs of characters with consecutive code points, and the first code point
\* of each.
CodeRuns ==
    <<[first |-> 48, chars |-> "0123456789:"],
      [first |-> 65, chars |-> "ABCDEFGHIJKLMNOPQRSTUVWXYZ"],
      [first |-> 95, chars |-> "_"],
      [first |-> 97, chars |-> "abcdefghijklmnopqrstuvwxyz"]>>

\* ord(c) of a character of these runs
OrdTable ==
    LET at(r, i) == SubSeq(CodeRuns[r].chars, i, i)
        places   == {<<r, i>> : r \in 1..Len(CodeRuns), i \in 1..26}
        valid    == {q \in places : q[2] <= Len(CodeRuns[q[1]].chars)}
    IN  [c \in {at(q[1], q[2]) : q \in valid} |->
            LET q == CHOOSE v \in valid : at(v[1], v[2]) = c
            IN  CodeRuns[q[1]].first + q[2] - 1]

\* message.encode('utf-8') of a str of such characters: one byte each.
RECURSIVE encode_utf8(_)
encode_utf8(message) ==
    IF Len(message) = 0 THEN <<>>
    ELSE <<OrdTable[SubSeq(message, 1, 1)]>>
            \o encode_utf8(SubSeq(message, 2, Len(message)))

\* hasher_input with each coordinate written as the characters of hex(c).
hasher_input_Hex(commitment, public_key, message) ==
    LET text(c) == [i \in 1..Len(HexDigitsOf(c)) |-> OrdTable[HexDigitsOf(c)[i]]]
    IN  IF commitment.inf \/ public_key.inf THEN [exc |-> "TypeError", val |-> <<>>]
        ELSE [exc |-> "",
              val |-> text(commitment.x) \o text(commitment.y) \o text(public_key.x)
                        \o text(public_key.y) \o encode_utf8(message)]

\* The bytes the five hasher.update calls of _compute_challenge feed to the
\* hasher, in order.
hasher_input(commitment, public_key, message) ==
    LET rx == number_to_string(PointX(commitment), ORDER)
        ry == number_to_string(PointY(commitment), ORDER)
        px == number_to_string(PointX(public_key), ORDER)
        py == number_to_string(PointY(public_key), ORDER)
    IN  IF rx.exc # "" THEN [exc |-> rx.exc, val |-> <<>>]
        ELSE IF ry.exc # "" THEN [exc |-> ry.exc, val |-> <<>>]
        ELSE IF px.exc # "" THEN [exc |-> px.exc, val |-> <<>>]
        ELSE IF py.exc # "" THEN [exc |-> py.exc, val |-> <<>>]
        ELSE IF message = NoneMessage THEN [exc |-> "AttributeError", val |-> <<>>]
        ELSE [exc |-> "",
              val |-> rx.val \o ry.val \o px.val \o py.val \o encode_utf8(message)]

NoChallengeCall == [commitment |-> INFINITY, public_key |-> INFINITY, message |-> NoneMessage]

NoHashing == [stage |-> "none", calls |-> <<NoChallengeCall, NoChallengeCall>>,
              hashed |-> <<>>, challenge |-> <<>>]

(***************************************************************************)
(* create_user as asyncio tasks run it: the code between two awaits runs   *)
(* without interruption, and other tasks run while one awaits the          *)
(* database.  The users table enforces unique=True on username and email   *)
(* when a row is inserted.                                                 *)
(***************************************************************************)
Tasks == {1, 2}

NoTask == [pc |-> "idle", username |-> "", email |-> "", public_key |-> NoneStr,
           zkp_proof |-> NoDict, existing_user |-> [exc |-> "", none |-> TRUE, row |-> NoUser],
           exc |-> "", user |-> NoUser]

\* users table without the unique constraints: every INSERT succeeds.
insert_user_Unconstrained(rows, user) == [exc |-> "", rows |-> rows \cup {user}]

\* INSERT of a row into users at commit: IntegrityError when a row has the
\* username or the email (unique=True), else the table with the row.
insert_user(rows, user) ==
    IF \E u \in rows : u.username = user.username \/ u.email = user.email
    THEN [exc |-> "IntegrityError", rows |-> rows]
    ELSE [exc |-> "", rows |-> rows \cup {user}]

\* create_user up to `await db.execute(stmt)`: the proof is verified, and the
\* select reads the table rows.
create_user_begin(f, rows) ==
    IF ~verify_zkp_proof(f.zkp_proof, f.public_key, f.username)
    THEN [f EXCEPT !.pc = "done", !.exc = "ZKPVerificationFailedException"]
    ELSE [f EXCEPT !.pc = "selected",
                   !.existing_user =
                        scalar_one_or_none({u \in rows : u.username = f.username
                                                          \/ u.email = f.email})]

\* create_user from the result of the select to the return, and the table
\* rows after db.commit().
create_user_finish(f, rows) ==
    LET user     == [id |-> f.username, username |-> f.username, email |-> f.email,
                     public_key |-> f.public_key, is_active |-> TRUE, is_verified |-> FALSE]
        raise(e) == [frame |-> [f EXCEPT !.pc = "done", !.exc = e], rows |-> rows]
        stored(r) == IF r.exc # "" THEN raise(r.exc)
                     ELSE [frame |-> [f EXCEPT !.pc = "done", !.user = user], rows |-> r.rows]
    IN  IF f.existing_user.exc # "" THEN raise(f.existing_user.exc)
        ELSE IF ~f.existing_user.none THEN raise("AuthenticationFailedException")
        ELSE IF ~_validate_public_key_format(f.public_key)
             THEN raise("AuthenticationFailedException")
        ELSE stored(insert_user(rows, user))

NoLegacy == [stage |-> "none", dict |-> NoDict, out |-> [none |-> TRUE, val |-> NoProof]]

(***************************************************************************)
(* get_current_user (dependencies.py).  A bearer token is what jwt.decode  *)
(* sees of it: whether the signature and the expiry are good, and the      *)
(* claims it carries (claims lists their keys).  A user id is a uuid in    *)
(* the code and the row's username here; WellFormedIds are the strings     *)
(* uuid.UUID parses.                                                       *)
(***************************************************************************)
WellFormedIds == {"alice", "bob", "carol"}

NoCredentials == [signed |-> FALSE, claims |-> {}, sub |-> ""]

NoPayload == [claims |-> {}, sub |-> ""]

\* AuthService.verify_token(token): the payload, or None on JWTError.
verify_token(token) ==
    IF token.signed
    THEN [none |-> FALSE, payload |-> [claims |-> token.claims, sub |-> token.sub]]
    ELSE [none |-> TRUE, payload |-> NoPayload]

\* AuthService.get_user_by_id(db, user_id): None for an id uuid.UUID rejects
\* (ValueError) and for an id with no row.
get_user_by_id(db, user_id) ==
    IF user_id \notin WellFormedIds
    THEN [none |-> TRUE, row |-> NoUser]
    ELSE IF \E u \in db : u.id = user_id
         THEN [none |-> FALSE, row |-> CHOOSE u \in db : u.id = user_id]
         ELSE [none |-> TRUE, row |-> NoUser]

\* The except clause of get_current_user: the two caught exceptions become
\* HTTPException(401); anything else leaves the function as it is.
as_http(exc) ==
    IF exc \in {"AuthenticationFailedException", "UserNotFoundException"}
    THEN [exc |-> "HTTPException", status |-> 401, user |-> NoUser]
    ELSE [exc |-> exc, status |-> 0, user |-> NoUser]

\* get_current_user(credentials, db): payload.get("sub") on the None that
\* verify_token returned is an AttributeError, which the except clause does
\* not name.
get_current_user(credentials, db) ==
    LET payload == verify_token(credentials)
    IN  IF payload.none
        THEN as_http("AttributeError")
        ELSE IF "sub" \notin payload.payload.claims
        THEN as_http("AuthenticationFailedException")
        ELSE IF get_user_by_id(db, payload.payload.sub).none
        THEN as_http("UserNotFoundException")
        ELSE IF ~get_user_by_id(db, payload.payload.sub).row.is_active
        THEN as_http("AuthenticationFailedException")
        ELSE [exc |-> "", status |-> 0, user |-> get_user_by_id(db, payload.payload.sub).row]

NoDeps == [stage |-> "none", credentials |-> NoCredentials, db |-> {},
           out |-> [exc |-> "", status |-> 0, user |-> NoUser]]

(***************************************************************************)
(* The file service (services/file.py) over the tables files,              *)
(* file_permissions and the storage_used column of users.  A file id and   *)
(* a user id are uuids in the code; a file id is a number here and a user  *)
(* id the username.  Sizes are counted in units in which the limits of     *)
(* upload_file are max_size and max_storage.  Of a FilePermission row the  *)
(* model keeps the columns the service reads; copy tells apart rows that   *)
(* agree on file, user and type (the table has no unique constraint on     *)
(* them).  Times are hours.                                                *)
(***************************************************************************)
FileUsers == {"alice", "bob"}

FileIds == {1}

FilePermissionType == {"read", "write", "delete", "share"}

max_size == 2

max_storage == 3

NoExpiry == [none |-> TRUE, at |-> 0]

NoFile == [id |-> 0, owner_id |-> "", file_size |-> 0, status |-> "", is_public |-> FALSE]

NoPermission == [file_id |-> 0, user_id |-> "", permission_type |-> "", copy |-> 0,
                 is_active |-> FALSE, expires_at |-> NoExpiry]

Database(f, p, a) == [files |-> f, perms |-> p, accounts |-> a]

\* Result.scalar_one_or_none() of a select that matched rows.
scalar_one_or_none_of(rows, norow) ==
    IF rows = {}
    THEN [exc |-> "", none |-> TRUE, row |-> norow]
    ELSE IF Cardinality(rows) = 1
         THEN [exc |-> "", none |-> FALSE, row |-> CHOOSE r \in rows : TRUE]
         ELSE [exc |-> "MultipleResultsFound", none |-> TRUE, row |-> norow]

\* FilePermission.is_expired(): models/file.py imports only datetime from
\* datetime, so datetime.now(timezone.utc) is a NameError for every row with
\* expires_at set.
is_expired(permission, now) ==
    IF permission.expires_at.none
    THEN [exc |-> "", val |-> FALSE]
    ELSE [exc |-> "NameError", val |-> FALSE]

\* FilePermission.is_valid()
is_valid(permission, now) ==
    IF ~permission.is_active
    THEN [exc |-> "", val |-> FALSE]
    ELSE [exc |-> is_expired(permission, now).exc,
          val |-> is_expired(permission, now).exc = "" /\ ~is_expired(permission, now).val]

\* One lookup of can_access_file: the active row of the type, if valid.
explicit_permission(db, file_obj, user, permission_type, now) ==
    LET found == scalar_one_or_none_of(
                     {p \in db.perms : /\ p.file_id = file_obj.id
                                       /\ p.user_id = user
                                       /\ p.permission_type = permission_type
                                       /\ p.is_active}, NoPermission)
    IN  IF found.exc # ""
        THEN [exc |-> found.exc, val |-> FALSE]
        ELSE IF found.none
             THEN [exc |-> "", val |-> FALSE]
             ELSE is_valid(found.row, now)

\* FileService.can_access_file(db, file_obj, user, permission_type)
can_access_file(db, file_obj, user, permission_type, now) ==
    IF file_obj.status # "active"
    THEN [exc |-> "", val |-> FALSE]
    ELSE IF file_obj.is_public /\ permission_type = "read"
    THEN [exc |-> "", val |-> TRUE]
    ELSE IF file_obj.owner_id = user
    THEN [exc |-> "", val |-> TRUE]
    ELSE IF explicit_permission(db, file_obj, user, permission_type, now).exc # ""
    THEN explicit_permission(db, file_obj, user, permission_type, now)
    ELSE IF explicit_permission(db, file_obj, user, permission_type, now).val
    THEN [exc |-> "", val |-> TRUE]
    ELSE IF permission_type = "read"
    THEN explicit_permission(db, file_obj, user, "write", now)
    ELSE [exc |-> "", val |-> FALSE]

\* FileService.get_file_by_id(db, file_id, user)
get_file_by_id(db, file_id, user, now) ==
    LET found == scalar_one_or_none_of({f \in db.files : f.id = file_id}, NoFile)
    IN  IF found.none
        THEN [exc |-> "", none |-> TRUE, file |-> NoFile]
        ELSE IF can_access_file(db, found.row, user, "read", now).exc # ""
        THEN [exc |-> can_access_file(db, found.row, user, "read", now).exc,
              none |-> TRUE, file |-> NoFile]
        ELSE IF ~can_access_file(db, found.row, user, "read", now).val
        THEN [exc |-> "", none |-> TRUE, file |-> NoFile]
        ELSE [exc |-> "", none |-> FALSE, file |-> found.row]

\* user.storage_used -= file_size, not below 0.
released(used, file_size) == IF used - file_size < 0 THEN 0 ELSE used - file_size

\* The checks of upload_file before the storage upload, on the storage_used
\* of the User object the call was given: the exception raised, if any.
upload_checks(storage_used, file_size, filename) ==
    IF file_size > max_size
    THEN "ValidationFailedException"
    ELSE IF filename = ""
    THEN "ValidationFailedException"
    ELSE IF storage_used + file_size > max_storage
    THEN "ValidationFailedException"
    ELSE ""

\* upload_file after the storage upload: db.add(file_obj),
\* user.storage_used += file_size on the User object, commit.  id is the
\* uuid4 of the new row.
upload_stored(db, user, storage_used, file_size, is_public, id) ==
    Database(db.files \cup {[id |-> id, owner_id |-> user, file_size |-> file_size,
                              status |-> "active", is_public |-> is_public]},
             db.perms,
             [db.accounts EXCEPT ![user] = storage_used + file_size])

\* FileService.upload_file(db, user, file_data, filename, is_public), run
\* alone with a User object as the users row is.
upload_file(db, user, file_size, filename, is_public, id) ==
    IF upload_checks(db.accounts[user], file_size, filename) # ""
    THEN [exc |-> upload_checks(db.accounts[user], file_size, filename), ret |-> FALSE, db |-> db]
    ELSE [exc |-> "", ret |-> TRUE,
          db |-> upload_stored(db, user, db.accounts[user], file_size, is_public, id)]

\* The body of delete_file once the file was found and the DELETE check passed.
soft_delete(db, file_obj, user) ==
    Database((db.files \ {file_obj}) \cup {[file_obj EXCEPT !.status = "deleted"]},
             db.perms,
             IF file_obj.owner_id = user
             THEN [db.accounts EXCEPT ![user] = released(@, file_obj.file_size)]
             ELSE db.accounts)

\* FileService.delete_file(db, file_id, user)
delete_file(db, file_id, user, now) ==
    LET found == get_file_by_id(db, file_id, user, now)
    IN  IF found.exc # ""
        THEN [exc |-> found.exc, ret |-> FALSE, db |-> db]
        ELSE IF found.none
        THEN [exc |-> "", ret |-> FALSE, db |-> db]
        ELSE IF can_access_file(db, found.file, user, "delete", now).exc # ""
        THEN [exc |-> can_access_file(db, found.file, user, "delete", now).exc,
              ret |-> FALSE, db |-> db]
        ELSE IF ~can_access_file(db, found.file, user, "delete", now).val
        THEN [exc |-> "", ret |-> FALSE, db |-> db]
        ELSE [exc |-> "", ret |-> TRUE, db |-> soft_delete(db, found.file, user)]

\* FileService.permanently_delete_file(db, file_id, user)
permanently_delete_file(db, file_id, user, now) ==
    LET found == get_file_by_id(db, file_id, user, now)
    IN  IF found.exc # ""
        THEN [exc |-> found.exc, ret |-> FALSE, db |-> db]
        ELSE IF found.none
        THEN [exc |-> "", ret |-> FALSE, db |-> db]
        ELSE IF found.file.owner_id # user
        THEN [exc |-> "", ret |-> FALSE, db |-> db]
        ELSE [exc |-> "", ret |-> TRUE,
              db |-> Database(db.files \ {found.file},
                              {p \in db.perms : p.file_id # found.file.id},
                              [db.accounts EXCEPT ![user] = released(@, found.file.file_size)])]

\* The users row whose username or email is the identifier.
EmailOf(user) == user \o "@example.com"

target_user(target_user_identifier) ==
    scalar_one_or_none_of({u \in FileUsers : \/ u = target_user_identifier
                                          \/ EmailOf(u) = target_user_identifier}, "")

\* datetime.now(timezone.utc) + timedelta(hours=expires_hours) if expires_hours else None
expiry(expires_hours, now) ==
    IF expires_hours = 0 THEN NoExpiry ELSE [none |-> FALSE, at |-> now + expires_hours]

\* The rows share_file looks for: any row of the file, the user and the type.
existing_permissions(db, file_id, user, permission_type) ==
    {p \in db.perms : /\ p.file_id = file_id
                      /\ p.user_id = user
                      /\ p.permission_type = permission_type}

\* db.add(permission): the table accepts a second row for the same file, user
\* and type.
new_permission(db, file_id, user, permission_type, expires_at) ==
    [file_id |-> file_id, user_id |-> user, permission_type |-> permission_type,
     copy |-> Cardinality(existing_permissions(db, file_id, user, permission_type)) + 1,
     is_active |-> TRUE, expires_at |-> expires_at]

\* The second half of share_file: update the row found, or add one.  The
\* commit writes the columns of the loaded row whose value the call changed
\* (is_active when the row was loaded inactive, expires_at when it differs
\* from the loaded one) to the table's row of that id.
grant(db, existing, file_id, user, permission_type, expires_at) ==
    IF existing.none
    THEN Database(db.files,
                  db.perms \cup {new_permission(db, file_id, user, permission_type, expires_at)},
                  db.accounts)
    ELSE Database(db.files,
                  {IF /\ p.file_id = existing.row.file_id /\ p.user_id = existing.row.user_id
                      /\ p.permission_type = existing.row.permission_type
                      /\ p.copy = existing.row.copy
                   THEN [p EXCEPT !.is_active = IF existing.row.is_active THEN @ ELSE TRUE,
                                  !.expires_at = IF existing.row.expires_at = expires_at
                                                 THEN @ ELSE expires_at]
                   ELSE p : p \in db.perms},
                  db.accounts)

\* The first half of share_file, to the select of the existing permission:
\* whether the call goes on (go), and with which target and which row.
share_lookup(db, file_id, owner, target_user_identifier, permission_type, now) ==
    LET found == get_file_by_id(db, file_id, owner, now)
        target == target_user(target_user_identifier)
        stop(exc) == [exc |-> exc, go |-> FALSE, target |-> "",
                      existing |-> scalar_one_or_none_of({}, NoPermission)]
    IN  IF found.exc # ""
        THEN stop(found.exc)
        ELSE IF found.none \/ found.file.owner_id # owner
        THEN stop("")
        ELSE IF target.exc # ""
        THEN stop(target.exc)
        ELSE IF target.none
        THEN stop("")
        ELSE IF target.row = owner
        THEN stop("")
        ELSE IF Cardinality(existing_permissions(db, file_id, target.row, permission_type)) > 1
        THEN stop("MultipleResultsFound")
        ELSE [exc |-> "", go |-> TRUE, target |-> target.row,
              existing |-> scalar_one_or_none_of(
                               existing_permissions(db, file_id, target.row, permission_type),
                               NoPermission)]

\* FileService.share_file(db, file_id, owner, target_user_identifier,
\*                        permission_type, expires_hours), run alone;
\* expires_hours None is 0.
share_file(db, file_id, owner, target_user_identifier, permission_type, expires_hours, now) ==
    LET looked == share_lookup(db, file_id, owner, target_user_identifier, permission_type, now)
    IN  IF ~looked.go
        THEN [exc |-> looked.exc, ret |-> FALSE, db |-> db]
        ELSE [exc |-> "", ret |-> TRUE,
              db |-> grant(db, looked.existing, file_id, looked.target, permission_type,
                           expiry(expires_hours, now))]

\* The user ids uuid.UUID parses in revoke_file_access.
TargetIds == FileUsers \cup {"carol"}

\* The UPDATE of revoke_file_access restricted to the rows of one type.
deactivated_ReadOnly(db, file_id, target) ==
    Database(db.files,
             {IF p.file_id = file_id /\ p.user_id = target /\ p.permission_type = "read"
              THEN [p EXCEPT !.is_active = FALSE] ELSE p : p \in db.perms},
             db.accounts)

\* update(FilePermission).where(file_id, user_id).values(is_active=False)
deactivated(db, file_id, target) ==
    Database(db.files,
             {IF p.file_id = file_id /\ p.user_id = target
              THEN [p EXCEPT !.is_active = FALSE] ELSE p : p \in db.perms},
             db.accounts)

\* FileService.revoke_file_access(db, file_id, owner, target_user_id)
revoke_file_access(db, file_id, owner, target_user_id, now) ==
    LET found == get_file_by_id(db, file_id, owner, now)
    IN  IF found.exc # ""
        THEN [exc |-> found.exc, ret |-> FALSE, db |-> db]
        ELSE IF found.none \/ found.file.owner_id # owner
        THEN [exc |-> "", ret |-> FALSE, db |-> db]
        ELSE IF target_user_id \notin TargetIds
        THEN [exc |-> "", ret |-> FALSE, db |-> db]
        ELSE [exc |-> "", ret |-> TRUE, db |-> deactivated(db, found.file.id, target_user_id)]

NoAccounts == [u \in FileUsers |-> 0]

\* A request to POST /files/upload: the User object get_current_user loaded
\* for it (its storage_used), and where upload_file stands.
NoUpload == [pc |-> "idle", user |-> "", storage_used |-> 0, file_size |-> 0,
             is_public |-> FALSE, exc |-> ""]

\* A share_file call in progress: what it was given and what it found.
NoShare == [pc |-> "idle", file_id |-> 0, target |-> "", permission_type |-> "",
            expires_hours |-> 0, existing |-> scalar_one_or_none_of({}, NoPermission),
            ret |-> FALSE, exc |-> ""]

\* No operation outside the proof engine, the endpoints and the shared
\* instance has run.
IdleExt ==
    /\ hashing = NoHashing
    /\ legacy = NoLegacy
    /\ tasks = [t \in Tasks |-> NoTask]
    /\ deps = NoDeps
    /\ files = {}
    /\ perms = {}
    /\ accounts = NoAccounts
    /\ clock = 0
    /\ uploads = [t \in Tasks |-> NoUpload]
    /\ shares = [t \in Tasks |-> NoShare]

\* Nothing has run in the proof engine, at the endpoints or on the shared
\* instance.
IdleCore ==
    /\ keypair = [exc |-> Unset, val |-> NoKeyPair]
    /\ proof = [exc |-> Unset, val |-> NoProof]
    /\ made = NoMade
    /\ tamper = NoTamper
    /\ public_key_hex = NoneStr
    /\ result = [exc |-> Unset, val |-> FALSE]
    /\ auth = NoAuth
    /\ calls = <<>>
    /\ codec = NoCodec
    /\ users = {}
    /\ api = NoApi
    /\ service = zkp_service
    /\ threads = [t \in Threads |-> NoFrame]

Init ==
    /\ keypair = [exc |-> Unset, val |-> NoKeyPair]
    /\ proof = [exc |-> Unset, val |-> NoProof]
    /\ made = NoMade
    /\ tamper = NoTamper
    /\ public_key_hex = NoneStr
    /\ result = NoResult
    /\ auth = NoAuth
    /\ calls = <<>>
    /\ codec = NoCodec
    /\ users = {}
    /\ api = NoApi
    /\ service = zkp_service
    /\ threads = [t \in Threads |-> NoFrame]
    /\ IdleExt

\* keypair = zkp_service.generate_keypair()
GenerateKeypair ==
    \E private_key \in Sampled :
        /\ keypair' = generate_keypair(private_key)
        /\ public_key_hex' = keypair'.val.public_key_hex
        /\ proof' = [exc |-> Unset, val |-> NoProof]
        /\ made' = NoMade
        /\ tamper' = NoTamper
        /\ result' = NoResult
        /\ UNCHANGED aux

\* proof = zkp_service.create_proof(keypair.private_key, message[, challenge])
CreateProof ==
    /\ keypair.exc = ""
    /\ \E i \in 1..Len(Messages), challenge \in Overrides, nonce \in Sampled :
        /\ proof' = create_proof(keypair.val.private_key, Messages[i], challenge, nonce)
        /\ made' = [private_key |-> keypair.val.private_key, message |-> Messages[i],
                    challenge |-> challenge, nonce |-> nonce]
    /\ public_key_hex' = keypair.val.public_key_hex
    /\ tamper' = NoTamper
    /\ result' = NoResult
    /\ UNCHANGED aux
    /\ UNCHANGED keypair

\* The verifier is handed another public key string for the proof as created.
PresentPublicKey ==
    /\ proof.exc = ""
    /\ tamper.field = "none"
    /\ \E k \in PublicKeyInputs(keypair.val) : public_key_hex' = k
    /\ result' = NoResult
    /\ UNCHANGED aux
    /\ UNCHANGED <<keypair, proof, made, tamper>>

\* is_valid = zkp_service.verify_proof(proof, public_key_hex)
VerifyProof ==
    /\ proof.exc = ""
    /\ result.exc = Unset
    /\ result' = verify_proof(proof.val, public_key_hex)
    /\ UNCHANGED aux
    /\ UNCHANGED <<keypair, proof, made, tamper, public_key_hex>>

\* An accepted proof is altered in exactly one field before it is verified again.
TamperProof ==
    /\ result.exc = "" /\ result.val
    /\ \E t \in Tamperings(proof.val) :
        /\ proof' = [exc |-> "", val |-> t.val]
        /\ tamper' = [field |-> t.field, from |-> proof.val]
    /\ result' = NoResult
    /\ UNCHANGED aux
    /\ UNCHANGED <<keypair, made, public_key_hex>>

\* A field of the proof as created is replaced by a value that does not decode.
CorruptProof ==
    /\ proof.exc = ""
    /\ tamper.field = "none"
    /\ public_key_hex = keypair.val.public_key_hex
    /\ \/ \E f \in HexFields, v \in Malformed :
            proof' = [proof EXCEPT !.val[f] = v]
       \/ proof' = [proof EXCEPT !.val.message = NoneMessage]
    /\ tamper' = [field |-> "malformed", from |-> proof.val]
    /\ result' = NoResult
    /\ UNCHANGED aux
    /\ UNCHANGED <<keypair, made, public_key_hex>>

Next ==
    \/ GenerateKeypair
    \/ CreateProof
    \/ PresentPublicKey
    \/ VerifyProof
    \/ TamperProof
    \/ CorruptProof

Spec == Init /\ [][Next]_vars

(***************************************************************************)
(* verify_zkp_proof as a function of its arguments: the initial states     *)
(* draw a key pair, a proof created for it, the public key on record and   *)
(* the proof dict of the request; the action applies the function.         *)
(***************************************************************************)
InitAuth ==
    \E private_key \in 1..MaxScalar, nonce \in 1..MaxScalar, i \in 1..Len(Messages) :
        /\ keypair = generate_keypair(private_key)
        /\ proof = create_proof(private_key, Messages[i], NoneStr, nonce)
        /\ made = [private_key |-> private_key, message |-> Messages[i],
                   challenge |-> NoneStr, nonce |-> nonce]
        /\ tamper = NoTamper
        /\ public_key_hex \in {_point_to_hex(P).val : P \in ModelPoints} \cup {NoneStr}
        /\ result = NoResult
        /\ auth \in {[NoAuth EXCEPT !.proof = d, !.public_key = public_key_hex] :
                        d \in ProofDicts}
        /\ calls = <<>>
        /\ codec = NoCodec
        /\ users = {}
        /\ api = NoApi
        /\ service = zkp_service
        /\ threads = [t \in Threads |-> NoFrame]
        /\ IdleExt

\* is_valid = auth_service.verify_zkp_proof(zkp_proof, public_key, identifier)
VerifyZkpProof ==
    /\ ~auth.called
    /\ auth' = [auth EXCEPT !.called = TRUE,
                            !.val = verify_zkp_proof(auth.proof, auth.public_key, "alice")]
    /\ UNCHANGED <<keypair, proof, made, tamper, public_key_hex, result, calls, codec, users, api, service, threads, ext>>

NextAuth == VerifyZkpProof

SpecAuth == InitAuth /\ [][NextAuth]_vars

(***************************************************************************)
(* A prover that holds one key pair and calls create_proof repeatedly, as  *)
(* ZKPAuthTester does for registration and then for login: every call      *)
(* samples its own nonce; the calls and what they returned are recorded.   *)
(***************************************************************************)
InitCalls ==
    \E private_key \in 1..MaxScalar :
        /\ keypair = generate_keypair(private_key)
        /\ proof = [exc |-> Unset, val |-> NoProof]
        /\ made = NoMade
        /\ tamper = NoTamper
        /\ public_key_hex = keypair.val.public_key_hex
        /\ result = NoResult
        /\ auth = NoAuth
        /\ calls = <<>>
        /\ codec = NoCodec
        /\ users = {}
        /\ api = NoApi
        /\ service = zkp_service
        /\ threads = [t \in Threads |-> NoFrame]
        /\ IdleExt

\* proof = zkp_service.create_proof(private_key, message[, challenge]), again
CreateProofCall ==
    /\ Len(calls) < MaxCalls
    /\ \E i \in 1..Len(Messages), challenge \in Overrides, nonce \in Sampled :
        calls' = Append(calls,
                    [private_key |-> keypair.val.private_key, message |-> Messages[i],
                     challenge |-> challenge, nonce |-> nonce,
                     proof |-> create_proof(keypair.val.private_key, Messages[i],
                                            challenge, nonce)])
    /\ UNCHANGED <<keypair, proof, made, tamper, public_key_hex, result, auth, codec, users, api, service, threads, ext>>

NextCalls == CreateProofCall

SpecCalls == InitCalls /\ [][NextCalls]_vars

(***************************************************************************)
(* The codec as functions of their arguments: the initial states draw a    *)
(* curve point, a scalar, or a string; the actions apply _point_to_hex and *)
(* _hex_to_point, and hex() and int(., 16) as create_proof and             *)
(* verify_proof apply them to the response and the challenge.              *)
(***************************************************************************)
\* Every point of the curve other than the identity.
CurvePoints == {GeneratorTable[k] : k \in 1..(ORDER - 1)}

\* A 64-character coordinate field holding the digits of v after a prefix.
CoordField(prefix, v) == prefix \o zfill(HexDigitsOf(v), 64 - Len(prefix))

\* "04" and two coordinate fields
KeyString(xfield, yfield) == <<"0", "4">> \o xfield \o yfield

\* The strings _hex_to_point is given: for the key pairs of the model, the
\* encoding and its malformed variants, and coordinate fields that are no
\* plain 64 hexadecimal digits.
HexInputs ==
    UNION {PublicKeyInputs(generate_keypair(k).val) : k \in 1..MaxScalar}
    \cup UNION {{KeyString(CoordField(<<"+">>, P.x), CoordField(<<>>, P.y)),
                 KeyString(CoordField(<<"-">>, FIELD_P - P.x), CoordField(<<>>, P.y)),
                 KeyString(CoordField(<<>>, P.x + FIELD_P), CoordField(<<>>, P.y)),
                 KeyString(CoordField(<<>>, P.x), CoordField(<<"0", "X">>, P.y)),
                 KeyString(CoordField(<<>>, P.x), CoordField(<<>>, FIELD_P - P.y))} :
                    P \in ModelPoints}

InitCodec ==
    /\ keypair = [exc |-> Unset, val |-> NoKeyPair]
    /\ proof = [exc |-> Unset, val |-> NoProof]
    /\ made = NoMade
    /\ tamper = NoTamper
    /\ public_key_hex = NoneStr
    /\ result = NoResult
    /\ auth = NoAuth
    /\ calls = <<>>
    /\ users = {}
    /\ api = NoApi
    /\ service = zkp_service
    /\ threads = [t \in Threads |-> NoFrame]
    /\ IdleExt
    /\ codec \in {[NoCodec EXCEPT !.kind = "point", !.point = P] : P \in CurvePoints}
               \cup {[NoCodec EXCEPT !.kind = "scalar", !.scalar = v] : v \in 0..(ORDER - 1)}
               \cup {[NoCodec EXCEPT !.kind = "hex", !.str = h] : h \in HexInputs}

\* public_key_hex = self._point_to_hex(public_key)
PointToHex ==
    /\ codec.kind = "point" /\ codec.stage = "input"
    /\ codec' = [codec EXCEPT !.stage = "encoded",
                              !.str = _point_to_hex(codec.point).val,
                              !.exc = _point_to_hex(codec.point).exc]
    /\ UNCHANGED <<keypair, proof, made, tamper, public_key_hex, result, auth, calls, users, api, service, threads, ext>>

\* public_key = self._hex_to_point(public_key_hex)
HexToPoint ==
    /\ \/ codec.kind = "point" /\ codec.stage = "encoded" /\ codec.exc = ""
       \/ codec.kind = "hex" /\ codec.stage = "input"
    /\ codec' = [codec EXCEPT !.stage = "decoded",
                              !.pt = _hex_to_point(codec.str).pt,
                              !.exc = _hex_to_point(codec.str).exc]
    /\ UNCHANGED <<keypair, proof, made, tamper, public_key_hex, result, auth, calls, users, api, service, threads, ext>>

\* response=hex(response) in create_proof
ScalarToHex ==
    /\ codec.kind = "scalar" /\ codec.stage = "input"
    /\ codec' = [codec EXCEPT !.stage = "encoded",
                              !.str = PyHex(PyInt(codec.scalar)).val,
                              !.exc = PyHex(PyInt(codec.scalar)).exc]
    /\ UNCHANGED <<keypair, proof, made, tamper, public_key_hex, result, auth, calls, users, api, service, threads, ext>>

\* response = int(proof_data.response, 16) in verify_proof
HexToScalar ==
    /\ codec.kind = "scalar" /\ codec.stage = "encoded" /\ codec.exc = ""
    /\ codec' = [codec EXCEPT !.stage = "decoded",
                              !.val = PyInt16(codec.str).val,
                              !.exc = PyInt16(codec.str).exc]
    /\ UNCHANGED <<keypair, proof, made, tamper, public_key_hex, result, auth, calls, users, api, service, threads, ext>>

NextCodec ==
    \/ PointToHex
    \/ HexToPoint
    \/ ScalarToHex
    \/ HexToScalar

SpecCodec == InitCodec /\ [][NextCodec]_vars

(***************************************************************************)
(* The API: clients that hold a key pair register and log in, as           *)
(* ZKPAuthTester does, with proofs they created, with legacy proofs and    *)
(* with malformed requests.  The users table starts empty or with a user   *)
(* that was deactivated.                                                   *)
(***************************************************************************)
\* The clients: the username, the email and the private key of each.
Clients ==
    {[username |-> "alice", email |-> "alice@example.com", private_key |-> 1],
     [username |-> "bob", email |-> "bob@example.com", private_key |-> 2],
     [username |-> "bob@example.com", email |-> "carol@example.com", private_key |-> 1]}

\* The legacy proof of test_legacy_format: two elements in each array.
LegacyProof ==
    [NoDict EXCEPT !.proof = <<<<"0", "x", "1">>, <<"0", "x", "2">>>>,
                   !.public_signals = <<<<"0", "x", "1">>, <<"0", "x", "2">>>>]

\* The Schnorr proofs a client creates with its private key.
ClientProofs(c) ==
    {SchnorrDict(create_proof(c.private_key, Messages[i], NoneStr, i).val) :
        i \in 1..Len(Messages)}

\* A proof the client created.
ClientProof(c) == SchnorrDict(create_proof(c.private_key, Messages[1], NoneStr, 1).val)

\* The zkp_proof bodies a client sends: its proofs, the legacy proof, a legacy
\* proof without public_signals, a proof with a field that lacks "0x", and a
\* proof with another challenge.
ProofInputs(c) ==
    ClientProofs(c)
    \cup {LegacyProof,
          [LegacyProof EXCEPT !.public_signals = AbsentList],
          [ClientProof(c) EXCEPT !.response = Tail(Tail(@))],
          [ClientProof(c) EXCEPT !.challenge = <<"0", "x", "0">>]}

PublicKeyOf(c) == generate_keypair(c.private_key).val.public_key_hex

\* The request body of the registration of client c with proof p.
Registration(c, p) ==
    [NoRequest EXCEPT !.username = c.username, !.email = c.email,
                      !.public_key = PublicKeyOf(c), !.zkp_proof = p]

\* The bodies of the requests to /auth/register: every client with each of
\* its proofs, and requests with one field that is not well-formed.
RegisterRequests ==
    UNION {{Registration(c, p) : p \in ProofInputs(c)} : c \in Clients}
    \cup UNION {LET good == Registration(c, ClientProof(c))
                IN  {[good EXCEPT !.username = "al"],
                     [good EXCEPT !.email = "alice"],
                     [good EXCEPT !.public_key = generate_keypair(3).val.public_key_hex],
                     [good EXCEPT !.public_key = SubSeq(PublicKeyOf(c), 1, 129)],
                     [good EXCEPT !.public_key = ReplaceAt(PublicKeyOf(c), 130, "1")]} :
                    c \in {d \in Clients : d.username = "alice"}}

\* The bodies of the requests to /auth/login.
LoginRequests ==
    {[NoRequest EXCEPT !.identifier = i, !.zkp_proof = p] :
        i \in {"alice", "bob", "bob@example.com"},
        p \in UNION {ProofInputs(c) : c \in Clients}}

InitApi ==
    /\ keypair = [exc |-> Unset, val |-> NoKeyPair]
    /\ proof = [exc |-> Unset, val |-> NoProof]
    /\ made = NoMade
    /\ tamper = NoTamper
    /\ public_key_hex = NoneStr
    /\ result = NoResult
    /\ auth = NoAuth
    /\ calls = <<>>
    /\ codec = NoCodec
    /\ users \in {{},
                  {[id |-> "bob", username |-> "bob", email |-> "bob@example.com",
                    public_key |-> generate_keypair(2).val.public_key_hex,
                    is_active |-> FALSE, is_verified |-> FALSE]}}
    /\ api = NoApi
    /\ service = zkp_service
    /\ threads = [t \in Threads |-> NoFrame]
    /\ IdleExt

\* POST /auth/register
RegisterUser ==
    /\ \E request \in RegisterRequests :
        \E response \in {register_user(request, users)} :
            /\ users' = response.db
            /\ api' = [op |-> "register", request |-> request, status |-> response.status,
                       exc |-> response.exc, token |-> response.token]
    /\ UNCHANGED <<keypair, proof, made, tamper, public_key_hex, result, auth, calls, codec, service, threads, ext>>

\* POST /auth/login
LoginUser ==
    /\ \E request \in LoginRequests :
        \E response \in {login_user(request, users)} :
            /\ users' = response.db
            /\ api' = [op |-> "login", request |-> request, status |-> response.status,
                       exc |-> response.exc, token |-> response.token]
    /\ UNCHANGED <<keypair, proof, made, tamper, public_key_hex, result, auth, calls, codec, service, threads, ext>>

NextApi ==
    \/ RegisterUser
    \/ LoginUser

SpecApi == InitApi /\ [][NextApi]_vars

(***************************************************************************)
(* Concurrent calls on zkp_service: each thread calls generate_keypair,    *)
(* create_proof or verify_proof and runs it one statement at a time, in    *)
(* any interleaving with the other thread.                                 *)
(***************************************************************************)
\* The private key and message of the create_proof calls.
CallerKey == 2

\* The proofs handed to verify_proof: one made for CallerKey with nonce 1,
\* the same with another response, and one without a commitment.
VerifyInputs ==
    LET made_proof == create_proof(CallerKey, Messages[1], NoneStr, 1).val
        key_of(k)  == generate_keypair(k).val.public_key_hex
    IN  {[proof_data |-> made_proof, public_key_hex |-> key_of(CallerKey)],
         [proof_data |-> made_proof, public_key_hex |-> key_of(1)],
         [proof_data |-> [made_proof EXCEPT !.response = <<"0", "x", "1">>],
          public_key_hex |-> key_of(CallerKey)],
         [proof_data |-> [made_proof EXCEPT !.commitment_x = NoneStr],
          public_key_hex |-> key_of(CallerKey)]}

InitConc ==
    /\ keypair = [exc |-> Unset, val |-> NoKeyPair]
    /\ proof = [exc |-> Unset, val |-> NoProof]
    /\ made = NoMade
    /\ tamper = NoTamper
    /\ public_key_hex = NoneStr
    /\ result = [exc |-> Unset, val |-> FALSE]
    /\ auth = NoAuth
    /\ calls = <<>>
    /\ codec = NoCodec
    /\ users = {}
    /\ api = NoApi
    /\ service = zkp_service
    /\ threads = [t \in Threads |-> NoFrame]
    /\ IdleExt

\* Thread t runs to frame f; the calls in progress on the other threads have
\* been interleaved with it.
Ran(t, f) ==
    [u \in Threads |->
        IF u = t THEN f
        ELSE IF threads[u].op # "idle" /\ ~threads[u].done
             THEN [threads[u] EXCEPT !.interleaved = TRUE]
             ELSE threads[u]]

Rest == <<keypair, proof, made, tamper, public_key_hex, result, auth, calls, codec, users, api, ext>>

\* Thread t calls zkp_service.generate_keypair().
CallGenerateKeypair(t) ==
    /\ threads[t].op = "idle"
    /\ threads' = [threads EXCEPT ![t] = [NoFrame EXCEPT !.op = "generate_keypair", !.pc = 1]]
    /\ UNCHANGED <<Rest, service>>

\* Thread t calls zkp_service.create_proof(private_key, message, challenge).
CallCreateProof(t) ==
    /\ threads[t].op = "idle"
    /\ \E challenge \in {NoneStr, <<"0", "x", "5">>} :
            threads' = [threads EXCEPT ![t] =
                            [NoFrame EXCEPT !.op = "create_proof", !.pc = 1,
                                            !.private_key = CallerKey,
                                            !.message = Messages[1],
                                            !.challenge_arg = challenge]]
    /\ UNCHANGED <<Rest, service>>

\* Thread t calls zkp_service.verify_proof(proof_data, public_key_hex).
CallVerifyProof(t) ==
    /\ threads[t].op = "idle"
    /\ \E in \in VerifyInputs :
            threads' = [threads EXCEPT ![t] =
                            [NoFrame EXCEPT !.op = "verify_proof", !.pc = 1,
                                            !.proof_data = in.proof_data,
                                            !.public_key_hex = in.public_key_hex]]
    /\ UNCHANGED <<Rest, service>>

\* Thread t runs the next statement of its call.
StepGenerateKeypair(t) ==
    /\ threads[t].op = "generate_keypair" /\ ~threads[t].done
    /\ \E r \in Sampled :
            /\ r < service.order
            /\ \E next \in {generate_keypair_step(service, threads[t], r)} :
                    /\ service' = next.self
                    /\ threads' = Ran(t, next.frame)
    /\ UNCHANGED Rest

StepCreateProof(t) ==
    /\ threads[t].op = "create_proof" /\ ~threads[t].done
    /\ \E r \in Sampled :
            /\ r < service.order
            /\ \E next \in {create_proof_step(service, threads[t], r)} :
                    /\ service' = next.self
                    /\ threads' = Ran(t, next.frame)
    /\ UNCHANGED Rest

StepVerifyProof(t) ==
    /\ threads[t].op = "verify_proof" /\ ~threads[t].done
    /\ \E next \in {verify_proof_step(service, threads[t])} :
            /\ service' = next.self
            /\ threads' = Ran(t, next.frame)
    /\ UNCHANGED Rest

\* The caller on thread t takes the outcome; the thread is free again.
Return(t) ==
    /\ threads[t].done
    /\ threads' = [threads EXCEPT ![t] = NoFrame]
    /\ UNCHANGED <<Rest, service>>

NextConc ==
    \E t \in Threads :
        \/ CallGenerateKeypair(t)
        \/ CallCreateProof(t)
        \/ CallVerifyProof(t)
        \/ StepGenerateKeypair(t)
        \/ StepCreateProof(t)
        \/ StepVerifyProof(t)
        \/ Return(t)

SpecConc == InitConc /\ [][NextConc]_vars

(***************************************************************************)
(* _compute_challenge called on two tuples of a commitment, a public key   *)
(* and a message.                                                          *)
(***************************************************************************)
\* The variables _compute_challenge calls leave alone.
ExtBut_hashing == <<legacy, tasks, deps, files, perms, accounts, clock, uploads, shares>>

ChallengeCalls ==
    {[commitment |-> R, public_key |-> P, message |-> Messages[i]] :
        R \in ModelPoints, P \in ModelPoints, i \in 1..Len(Messages)}

InitHash == IdleCore /\ IdleExt

\* _compute_challenge is called on two tuples.
ComputeChallenge ==
    /\ hashing.stage = "none"
    /\ \E a \in ChallengeCalls, b \in ChallengeCalls :
        hashing' =
            [stage |-> "done",
             calls |-> <<a, b>>,
             hashed |-> <<hasher_input(a.commitment, a.public_key, a.message),
                          hasher_input(b.commitment, b.public_key, b.message)>>,
             challenge |-> <<_compute_challenge(a.commitment, a.public_key, a.message),
                             _compute_challenge(b.commitment, b.public_key, b.message)>>]
    /\ UNCHANGED <<core, ExtBut_hashing>>

NextHash == ComputeChallenge

SpecHash == InitHash /\ [][NextHash]_vars

(***************************************************************************)
(* parse_legacy_proof called on a dict.                                    *)
(***************************************************************************)
\* The variables parse_legacy_proof calls leave alone.
ExtBut_legacy == <<hashing, tasks, deps, files, perms, accounts, clock, uploads, shares>>

\* What a dict holds under 'proof' or 'public_signals': no such key, None,
\* or a list of up to three strings.
LegacyArrays ==
    {AbsentList, NoneList, <<>>}
    \cup {SubSeq(<<<<"0", "x", "1">>, <<"0", "x", "2">>, <<"0", "x", "3">>>>, 1, n) : n \in 1..3}

\* Dicts in the array format, some with Schnorr keys besides, and the dict of
\* a Schnorr proof.
ParsedDicts ==
    {[NoDict EXCEPT !.proof = pa, !.public_signals = ps, !.response = r, !.message = m] :
        pa \in LegacyArrays, ps \in LegacyArrays,
        r \in {AbsentStr, <<"0", "x", "9">>}, m \in {AbsentMessage, Messages[1]}}
    \cup {SchnorrDict(create_proof(1, Messages[1], NoneStr, 1).val)}

InitLegacy == IdleCore /\ IdleExt

ParseLegacyProof ==
    /\ legacy.stage = "none"
    /\ \E d \in ParsedDicts :
            legacy' = [stage |-> "done", dict |-> d, out |-> parse_legacy_proof(d)]
    /\ UNCHANGED <<core, ExtBut_legacy>>

NextLegacy == ParseLegacyProof

SpecLegacy == InitLegacy /\ [][NextLegacy]_vars

(***************************************************************************)
(* Concurrent create_user calls.                                           *)
(***************************************************************************)
\* The variables create_user calls leave alone.
CoreButUsers ==
    <<keypair, proof, made, tamper, public_key_hex, result, auth, calls, codec, api, service,
      threads>>

ExtBut_tasks == <<hashing, legacy, deps, files, perms, accounts, clock, uploads, shares>>

\* The arguments of the calls: alice with her key and proof; the same
\* username with another email; another username with the same email; bob
\* with a proof that does not verify; bob with a legacy proof and a key of the
\* right length that is no curve point; bob with a legacy proof and his key.
CreateUserCalls ==
    LET key(k)    == generate_keypair(k).val.public_key_hex
        schnorr   == SchnorrDict(create_proof(1, Messages[1], NoneStr, 1).val)
        call(u, e, pk, p) == [username |-> u, email |-> e, public_key |-> pk, zkp_proof |-> p]
    IN  {call("alice", "alice@example.com", key(1), schnorr),
         call("alice", "bob@example.com", key(1), schnorr),
         call("bob", "alice@example.com", key(1), schnorr),
         call("bob", "bob@example.com", key(2), schnorr),
         call("bob", "bob@example.com", ReplaceAt(key(2), 130, "1"), LegacyProof),
         call("bob", "bob@example.com", key(2), LegacyProof)}

InitUsers == IdleCore /\ IdleExt

\* Task t calls create_user and runs to the first await.
BeginCreateUser(t) ==
    /\ tasks[t].pc = "idle"
    /\ \E c \in CreateUserCalls :
        \E f \in {create_user_begin([NoTask EXCEPT !.username = c.username, !.email = c.email,
                                                   !.public_key = c.public_key,
                                                   !.zkp_proof = c.zkp_proof], users)} :
            tasks' = [tasks EXCEPT ![t] = f]
    /\ UNCHANGED <<users, CoreButUsers, ExtBut_tasks>>

\* Task t resumes with the result of the select and runs to the end.
FinishCreateUser(t) ==
    /\ tasks[t].pc = "selected"
    /\ \E r \in {create_user_finish(tasks[t], users)} :
            /\ tasks' = [tasks EXCEPT ![t] = r.frame]
            /\ users' = r.rows
    /\ UNCHANGED <<CoreButUsers, ExtBut_tasks>>

\* The caller of task t takes the user or the exception.
ReturnCreateUser(t) ==
    /\ tasks[t].pc = "done"
    /\ tasks' = [tasks EXCEPT ![t] = NoTask]
    /\ UNCHANGED <<users, CoreButUsers, ExtBut_tasks>>

NextUsers ==
    \E t \in Tasks :
        \/ BeginCreateUser(t)
        \/ FinishCreateUser(t)
        \/ ReturnCreateUser(t)

SpecUsers == InitUsers /\ [][NextUsers]_vars

(***************************************************************************)
(* Properties                                                              *)
(***************************************************************************)
\* The discrete logarithm of a point of the group (a table lookup here).
DLog(pt) == CHOOSE k \in 0..(ORDER - 1) : GeneratorTable[k] = pt

\* verify_proof was called on (proof, public_key_hex) and returned.
Verified == result.exc # Unset

Accepted == result.exc = "" /\ result.val

\* The proof is the one create_proof returned, unaltered.
AsCreated == proof.exc = "" /\ tamper.field = "none"

\* The public key that belongs to the private key of the create_proof call.
OwnKeyHex == _point_to_hex(GeneratorMul(made.private_key)).val

\* The proof and the public key decode, and what they decode to.
Decoded == verify_steps(proof.val, public_key_hex)

\* response * G = commitment + challenge * publicKey, stated on discrete logs.
EquationHolds(s) ==
    (s.response - DLog(s.commitment) - s.challenge * DLog(s.public_key)) % ORDER = 0

\* The challenge the proof states is the hash of (commitment, publicKey, message).
ChallengeBound(s) ==
    s.challenge = _compute_challenge(s.commitment, s.public_key, proof.val.message).val

\* C1 (as claimed): for every private key in [1, n-1], message and nonce that
\* create_proof can sample, create_proof without a challenge override returns
\* a proof, and verify_proof accepts that proof for the matching public key.
C1_Completeness ==
    /\ (proof.exc # Unset /\ made.challenge = NoneStr /\ made.private_key \in 1..(ORDER - 1))
            => proof.exc = ""
    /\ (AsCreated /\ made.challenge = NoneStr /\ public_key_hex = OwnKeyHex /\ Verified)
            => Accepted

\* C2: verify_proof returns True only if the stated challenge equals the
\* recomputed one and response*G = commitment + challenge*publicKey.
C2_Soundness ==
    Accepted => (Decoded.exc = "" /\ ChallengeBound(Decoded) /\ EquationHolds(Decoded))

\* C2 witness: an altered proof was verified and accepted.
C2_Witness == Accepted /\ tamper.field = "response"

\* C3 (as claimed): verify_zkp_proof returns True only when verify_proof
\* returns True for that proof and that public key.
C3_LegacyNeverAuthenticates ==
    (auth.called /\ auth.val) => verify_proof(ProofDataOf(auth.proof), auth.public_key).val

\* C4: a proof whose stated challenge is not the recomputed hash is rejected
\* even when the group equation holds for the stated challenge.
C4_ChallengeBinding ==
    (Verified /\ Decoded.exc = "" /\ EquationHolds(Decoded) /\ ~ChallengeBound(Decoded))
        => (result.exc = "" /\ ~result.val)

\* C4 witness: a proof built with a challenge override that is not the hash,
\* for which the equation holds, was verified.
C4_Witness ==
    /\ Verified /\ AsCreated /\ made.challenge # NoneStr
    /\ Decoded.exc = "" /\ EquationHolds(Decoded) /\ ~ChallengeBound(Decoded)

\* The verifier was handed the codec encoding of a point other than sk*G.
WrongKey ==
    \E P \in ModelPoints :
        P # GeneratorMul(made.private_key) /\ public_key_hex = _point_to_hex(P).val

\* C5: a proof created with sk1 (no override) is rejected for every public
\* key pk2 other than sk1*G.
C5_WrongKeyRejected ==
    (AsCreated /\ made.challenge = NoneStr /\ WrongKey /\ Verified)
        => (result.exc = "" /\ ~result.val)

\* C5 witness: such a proof was verified against another public key.
C5_Witness == AsCreated /\ made.challenge = NoneStr /\ WrongKey /\ Verified

\* The proof differs from an accepted proof in one field, as the claim allows:
\* another curve point, another response in [0, n-1], another challenge,
\* another message.
SingleFieldChange ==
    /\ tamper.field \in {"commitment", "response", "challenge", "message"}
    /\ tamper.field = "response" => PyInt16(proof.val.response).val \in 0..(ORDER - 1)

\* C6 (as claimed): changing exactly one field of an accepted proof makes
\* verify_proof return False.
C6_TamperRejected ==
    (SingleFieldChange /\ Verified) => (result.exc = "" /\ ~result.val)

\* A field of the proof or the public key does not decode.
DecodingFails ==
    \/ \E f \in HexFields : PyInt16(proof.val[f]).exc # ""
    \/ _hex_to_point(public_key_hex).exc # ""

\* C7: verify_proof returns True or False and never raises; a decoding
\* failure of a coordinate, the response, the challenge or the key gives False.
C7_TwoOutcomes ==
    Verified => (result.exc = "" /\ (DecodingFails => ~result.val))

\* C7 witness: a proof with a field that is None was verified.
C7_Witness ==
    Verified /\ \E f \in HexFields : proof.val[f] = NoneStr

\* The public key string has the wrong length, the wrong tag, or a character
\* that is no hexadecimal digit.
SyntacticallyInvalid(k) ==
    /\ k # NoneStr
    /\ \/ Len(k) # 130
       \/ ~(Len(k) >= 2 /\ k[1] = "0" /\ k[2] = "4")
       \/ \E i \in 1..Len(k) : DigitValue(k[i]) < 0

C9_ScalarsInRange ==
    Accepted => /\ PyInt16(proof.val.response).val \in 0..(ORDER - 1)
                /\ PyInt16(proof.val.challenge).val \in 0..(ORDER - 1)

\* C10 (as claimed): generate_keypair never fails and returns a private key
\* in [1, n-1] with public_key = private_key*G, a curve point that is not the
\* identity, and public_key_hex its codec encoding.
C10_KeypairValid ==
    keypair.exc # Unset =>
        /\ keypair.exc = ""
        /\ keypair.val.private_key \in 1..(ORDER - 1)
        /\ keypair.val.public_key = GeneratorMul(keypair.val.private_key)
        /\ ~keypair.val.public_key.inf
        /\ contains_point(keypair.val.public_key.x, keypair.val.public_key.y)
        /\ keypair.val.public_key_hex = _point_to_hex(keypair.val.public_key).val

\* C11 (as claimed): every create_proof call draws its nonce from [1, n-1] and
\* returns a proof whose commitment is a curve point other than the identity.
C11_NonceNonZero ==
    proof.exc # Unset =>
        /\ made.nonce \in 1..(ORDER - 1)
        /\ ~GeneratorMul(made.nonce).inf
        /\ proof.exc = ""

\* Two different create_proof calls of the recorded sequence that returned.
ReturnedPairs ==
    {<<i, j>> \in (1..Len(calls)) \X (1..Len(calls)) :
        i < j /\ calls[i].proof.exc = "" /\ calls[j].proof.exc = ""}

SameCommitment(a, b) ==
    /\ a.proof.val.commitment_x = b.proof.val.commitment_x
    /\ a.proof.val.commitment_y = b.proof.val.commitment_y

\* C12 (as claimed): no two create_proof calls with the same private key use
\* the same nonce, and no two returned proofs share a commitment.
C12_NonceUnique ==
    /\ \A i, j \in 1..Len(calls) : i < j => calls[i].nonce # calls[j].nonce
    /\ \A ij \in ReturnedPairs : ~SameCommitment(calls[ij[1]], calls[ij[2]])

\* C12 (amended): every create_proof call uses the nonce it sampled itself,
\* so two proofs returned for the same private key share a commitment exactly
\* when secrets.randbelow returned the same nonce to both calls; calls on the
\* identical (private key, message) with different nonces return different
\* (commitment, response) pairs.
C12_FreshNonce ==
    \A ij \in ReturnedPairs :
        LET a == calls[ij[1]]
            b == calls[ij[2]]
        IN  /\ SameCommitment(a, b) <=> a.nonce = b.nonce
            /\ (a.nonce # b.nonce /\ a.message = b.message /\ a.challenge = b.challenge)
                    => a.proof.val # b.proof.val

\* C12 witness: two calls without override for the identical message
\* returned, with different nonces.
C12_Witness ==
    \E ij \in ReturnedPairs :
        /\ calls[ij[1]].message = calls[ij[2]].message
        /\ calls[ij[1]].nonce # calls[ij[2]].nonce
        /\ calls[ij[1]].challenge = NoneStr /\ calls[ij[2]].challenge = NoneStr

\* The Unix timestamps of the authentication messages of the model.
Timestamps == {1700000000}

\* The dict has the five Schnorr keys, none of them None.
IsSchnorrProof(d) ==
    \A f \in SchnorrFields : HasKey(d, f) /\ d[f] # (IF f = "message" THEN NoneMessage ELSE NoneStr)

\* C15 (as claimed): verify_zkp_proof(proof, public_key, I) accepts a Schnorr
\* proof only when proof.message is create_authentication_message(I, t) for
\* some timestamp t.
C15_ScopedToIdentifier ==
    (auth.called /\ auth.val /\ IsSchnorrProof(auth.proof))
        => \E t \in Timestamps : auth.proof.message = create_authentication_message("alice", t)

\* C16: _point_to_hex of a curve point other than the identity is a string
\* of 130 characters that starts with "04", and _hex_to_point of that string
\* has the coordinates of the point; int(., 16) of the hex() string of a
\* scalar in [0, n-1] is that scalar.
C16_RoundTrip ==
    /\ (codec.kind = "point" /\ codec.stage # "input")
            => /\ codec.stage = "encoded" => codec.exc = ""
               /\ Len(codec.str) = 130 /\ codec.str[1] = "0" /\ codec.str[2] = "4"
    /\ (codec.kind = "point" /\ codec.stage = "decoded")
            => /\ codec.exc = ""
               /\ ~codec.pt.inf /\ codec.pt.x = codec.point.x /\ codec.pt.y = codec.point.y
    /\ (codec.kind = "scalar" /\ codec.stage = "decoded")
            => codec.exc = "" /\ codec.val = codec.scalar

\* C16 witness: a point with a coordinate of two hexadecimal digits was
\* encoded and decoded.
C16_Witness ==
    codec.kind = "point" /\ codec.stage = "decoded" /\ codec.point.x >= 16

\* The string is "04" followed by two fields of 64 hexadecimal digits that
\* are the coordinates of a point of the curve.
WellFormedPoint(h) ==
    /\ h # NoneStr
    /\ Len(h) = 130 /\ h[1] = "0" /\ h[2] = "4"
    /\ \A i \in 3..130 : DigitValue(h[i]) >= 0
    /\ contains_point(HexValue(SubSeq(h, 3, 66)), HexValue(SubSeq(h, 67, 130)))

\* C17 (as claimed): _hex_to_point returns a point only for such a string and
\* raises an error for every other input.
C17_OnlyWellFormed ==
    (codec.stage = "decoded" /\ codec.kind \in {"point", "hex"})
        => (codec.exc = "" <=> WellFormedPoint(codec.str))

\* H(R.x || R.y || P.x || P.y || m) mod n for the points r*G and sk*G.
FiatShamir(r, sk, m) ==
    LET R == GeneratorTable[r]
        P == GeneratorTable[sk]
    IN  Sha256(Transcript(<<R.x, R.y, P.x, P.y>>, m)) % ORDER

\* C20: a proof create_proof(sk, m, override) returns has commitment r*G for
\* the sampled nonce r, the override as challenge when one was supplied and
\* H(r*G, sk*G, m) mod n otherwise, response (r + challenge*sk) mod n, which
\* is in [0, n-1], and message m.
C20_ProofFields ==
    AsCreated =>
        LET R == NewPoint(PyInt16(proof.val.commitment_x).val,
                          PyInt16(proof.val.commitment_y).val)
            s == PyInt16(proof.val.response)
            c == PyInt16(proof.val.challenge)
        IN  /\ R.exc = "" /\ DLog(R.pt) = made.nonce
            /\ c.exc = ""
            /\ c.val = IF made.challenge = NoneStr
                       THEN FiatShamir(made.nonce, made.private_key, made.message)
                       ELSE PyInt16(made.challenge).val
            /\ s.exc = "" /\ s.val \in 0..(ORDER - 1)
            /\ (s.val - made.nonce - c.val * made.private_key) % ORDER = 0
            /\ proof.val.message = made.message

\* C20 witness: a proof was returned for which r + challenge*sk is n or
\* more, so that the reduction modulo n matters.
C20_Witness ==
    /\ AsCreated
    /\ made.nonce + PyInt16(proof.val.challenge).val * made.private_key >= ORDER

\* The response to the last request reports success.
Succeeded(a) == a.op \in {"register", "login"} /\ a.exc = ""

\* C13 (as claimed): once a login or a registration has accepted a proof, a
\* login that presents the identical proof is rejected.
C13_ProofConsumedOnce ==
    [][(Succeeded(api) /\ api'.op = "login"
            /\ api'.request.zkp_proof = api.request.zkp_proof)
        => api'.exc # ""]_vars

\* The rows authenticate_user selects for the identifier of the request.
RowsFor(a) ==
    {u \in users : u.username = a.request.identifier \/ u.email = a.request.identifier}

\* C14: login issues an access token only when exactly one user has the
\* identifier, that user is active and verify_zkp_proof returns True for the
\* proof and that user's stored public key, and the token names that user;
\* when the user is missing or inactive or the proof fails, the response
\* reports an exception and carries no token.
C14_TokenOnlyAfterVerification ==
    api.op = "login" =>
        /\ api.token # NoToken <=> api.exc = ""
        /\ api.token # NoToken =>
                \E u \in users :
                    /\ RowsFor(api) = {u}
                    /\ u.is_active
                    /\ verify_zkp_proof(ModelDump(api.request.zkp_proof), u.public_key,
                                        api.request.identifier)
                    /\ api.token = [sub |-> u.id, username |-> u.username]
        /\ (\/ RowsFor(api) = {}
            \/ \E u \in RowsFor(api) :
                    \/ ~u.is_active
                    \/ ~verify_proof(ProofDataOf(api.request.zkp_proof), u.public_key).val)
                => (api.exc # "" /\ api.token = NoToken)

\* C14 witness: an inactive user presented a proof that verifies for the
\* stored public key, and was refused.
C14_Witness ==
    /\ api.op = "login" /\ api.exc = "AuthenticationFailedException"
    /\ \E u \in RowsFor(api) :
            verify_proof(ProofDataOf(api.request.zkp_proof), u.public_key).val

\* The registration request is well-formed: the schema accepts it and the
\* public key is the encoding of a curve point.
WellFormedRegistration(r) ==
    /\ UserRegistrationRequest(r) = ""
    /\ _hex_to_point(r.public_key).exc = ""

\* C18 (as claimed): registering with the legacy proof of two elements per
\* array and a well-formed public key, username and email that no user has
\* succeeds and creates the user.
C18_LegacyRegisters ==
    [][(/\ api'.op = "register"
        /\ api'.request.zkp_proof = LegacyProof
        /\ WellFormedRegistration(api'.request)
        /\ ~\E u \in users : \/ u.username = api'.request.username
                             \/ u.email = api'.request.email)
        => /\ api'.status = 201
           /\ \E u \in users' \ users : /\ u.username = api'.request.username
                                        /\ u.email = api'.request.email
                                        /\ u.public_key = api'.request.public_key]_vars

\* What the call of frame f returns when it runs alone, with the values
\* randbelow returned to it.
Alone(f) ==
    CASE f.op = "generate_keypair" ->
            LET k == generate_keypair(f.private_key)
            IN  [exc |-> k.exc, keypair |-> k.val, proof |-> NoProof, valid |-> FALSE]
      [] f.op = "create_proof" ->
            LET p == create_proof(f.private_key, f.message, f.challenge_arg, f.nonce)
            IN  [exc |-> p.exc, keypair |-> NoKeyPair, proof |-> p.val, valid |-> FALSE]
      [] OTHER ->
            LET v == verify_proof(f.proof_data, f.public_key_hex)
            IN  [exc |-> v.exc, keypair |-> NoKeyPair, proof |-> NoProof, valid |-> v.val]

Outcome(f) == [exc |-> f.exc, keypair |-> f.keypair, proof |-> f.proof, valid |-> f.valid]

\* C19: no statement of generate_keypair, create_proof or verify_proof
\* changes an attribute of the shared instance, and under every interleaving
\* of the calls of two threads each finished call has the outcome the same
\* call has when it runs alone.
C19_ConcurrentCallsAsAlone ==
    /\ service = zkp_service
    /\ \A t \in Threads : threads[t].done => Outcome(threads[t]) = Alone(threads[t])

\* C19 witness: a create_proof call and a verify_proof call that ran
\* interleaved have both finished, with a proof and with True.
C19_Witness ==
    \E t, u \in Threads :
        /\ threads[t].done /\ threads[t].interleaved /\ threads[t].op = "create_proof"
        /\ threads[t].exc = "" /\ threads[t].proof # NoProof
        /\ threads[u].done /\ threads[u].interleaved /\ threads[u].op = "verify_proof"
        /\ threads[u].valid

\* The bytes of coordinate k (1 to 4) in a hasher input.
CoordinateBytes(bytes, k) == SubSeq(bytes, (k - 1) * orderlen(ORDER) + 1, k * orderlen(ORDER))

\* The hasher input holds the four coordinates of the call, each in
\* orderlen(n) big-endian bytes, in the order R.x, R.y, P.x, P.y, and then
\* the bytes of the message.
FixedLayout(bytes, call) ==
    /\ Len(bytes) = 4 * orderlen(ORDER) + Len(call.message)
    /\ CoordinateBytes(bytes, 1) = BigEndian(call.commitment.x, orderlen(ORDER))
    /\ CoordinateBytes(bytes, 2) = BigEndian(call.commitment.y, orderlen(ORDER))
    /\ CoordinateBytes(bytes, 3) = BigEndian(call.public_key.x, orderlen(ORDER))
    /\ CoordinateBytes(bytes, 4) = BigEndian(call.public_key.y, orderlen(ORDER))
    /\ SubSeq(bytes, 4 * orderlen(ORDER) + 1, Len(bytes)) = encode_utf8(call.message)

\* C21: _compute_challenge returns a value in [0, n-1], the same for the same
\* (commitment, public key, message); the bytes it hashes are the four
\* coordinates at fixed width in the order R.x, R.y, P.x, P.y followed by the
\* message, and differ for different tuples.
C21_ChallengeInputInjective ==
    hashing.stage = "done" =>
        /\ \A k \in 1..2 :
                /\ hashing.challenge[k].exc = ""
                /\ hashing.challenge[k].val \in 0..(ORDER - 1)
                /\ hashing.hashed[k].exc = ""
                /\ FixedLayout(hashing.hashed[k].val, hashing.calls[k])
        /\ hashing.calls[1] = hashing.calls[2] =>
                /\ hashing.challenge[1] = hashing.challenge[2]
                /\ hashing.hashed[1] = hashing.hashed[2]
        /\ hashing.calls[1] # hashing.calls[2] => hashing.hashed[1].val # hashing.hashed[2].val

\* C21 witness: two calls that differ only in the public key were hashed.
C21_Witness ==
    /\ hashing.stage = "done"
    /\ hashing.calls[1].public_key # hashing.calls[2].public_key
    /\ hashing.calls[1].commitment = hashing.calls[2].commitment
    /\ hashing.calls[1].message = hashing.calls[2].message

\* The value under the key is a list of at least two elements.
TwoOrMore(list) == list \notin {AbsentList, NoneList} /\ Len(list) >= 2

\* C22: for a dict without 'commitment_x', parse_legacy_proof returns the
\* proof (proof[0], proof[1], public_signals[0], public_signals[1]) with the
\* message 'legacy_format' exactly when both arrays have at least two
\* elements, whatever they hold, and None otherwise.
C22_LegacyPositional ==
    (legacy.stage = "done" /\ ~HasKey(legacy.dict, "commitment_x")) =>
        /\ ~legacy.out.none <=>
                (TwoOrMore(legacy.dict.proof) /\ TwoOrMore(legacy.dict.public_signals))
        /\ ~legacy.out.none =>
                legacy.out.val = [commitment_x |-> legacy.dict.proof[1],
                                  commitment_y |-> legacy.dict.proof[2],
                                  response     |-> legacy.dict.public_signals[1],
                                  challenge    |-> legacy.dict.public_signals[2],
                                  message      |-> "legacy_format"]
        /\ legacy.out.none => legacy.out.val = NoProof

\* C22 witness: a dict with one element under 'public_signals' and three
\* under 'proof' was parsed, and None came back.
C22_Witness ==
    /\ legacy.stage = "done" /\ legacy.out.none
    /\ legacy.dict.proof \notin {AbsentList, NoneList} /\ Len(legacy.dict.proof) = 3
    /\ legacy.dict.public_signals \notin {AbsentList, NoneList}
    /\ Len(legacy.dict.public_signals) = 1

\* No two stored users share a username or an email, and _hex_to_point
\* accepts every stored public key.
StoredUsersValid ==
    /\ \A u, v \in users : (u.username = v.username \/ u.email = v.email) => u = v
    /\ \A u \in users : _hex_to_point(u.public_key).exc = ""

\* What a step of a create_user call does to the table: a call that ends
\* with an exception leaves it as it was, and a row is added only by a call
\* that ends without one, for its own arguments, after verify_zkp_proof
\* returned True for them.
StoredOnlyVerified ==
    /\ \A t \in Tasks :
            (tasks[t].pc # "done" /\ tasks'[t].pc = "done" /\ tasks'[t].exc # "")
                => users' = users
    /\ \A u \in users' \ users :
            \E t \in Tasks :
                /\ tasks[t].pc = "selected" /\ tasks'[t].pc = "done" /\ tasks'[t].exc = ""
                /\ tasks'[t].user = u
                /\ u.username = tasks[t].username /\ u.email = tasks[t].email
                /\ u.public_key = tasks[t].public_key
                /\ verify_zkp_proof(tasks[t].zkp_proof, u.public_key, u.username)
    /\ users \subseteq users'

\* C23: under every interleaving of create_user calls the stored users have
\* pairwise different usernames and emails and public keys that
\* _hex_to_point accepts, each was stored after verify_zkp_proof returned
\* True for its public key, and a call that raises leaves the stored users
\* unchanged.
C23_StoredUsers == [](StoredUsersValid) /\ [][StoredOnlyVerified]_vars

\* C23 witness: two calls for the same username both passed the select
\* before either committed; one stored the user and the other raised at
\* commit.
C23_Witness ==
    \E t, u \in Tasks :
        /\ tasks[t].pc = "done" /\ tasks[t].exc = "" /\ tasks[t].user \in users
        /\ tasks[u].pc = "done" /\ tasks[u].exc = "IntegrityError"
        /\ tasks[u].username = tasks[t].username

(***************************************************************************)
(* get_current_user on its own: one call with a bearer token and a users   *)
(* table.                                                                  *)
(***************************************************************************)
ExtBut_deps == <<hashing, legacy, tasks, files, perms, accounts, clock, uploads, shares>>

\* The bearer tokens: signed and unexpired or not, carrying no "sub", the id
\* of a row, a well-formed id or a string that is no uuid.
BearerTokens ==
    {[signed |-> s, claims |-> {"sub", "exp"}, sub |-> i] :
        s \in BOOLEAN, i \in {"alice", "bob", "carol", "not-a-uuid"}}
    \cup {[signed |-> s, claims |-> {"exp"}, sub |-> ""] : s \in BOOLEAN}

\* The rows a users table may hold: at most one row per id.
UserRow(name, active) ==
    [id |-> name, username |-> name, email |-> name \o "@example.com",
     public_key |-> NoneStr, is_active |-> active, is_verified |-> FALSE]

UserTables ==
    {rows \in SUBSET {UserRow(n, a) : n \in {"alice", "bob", "carol"}, a \in BOOLEAN} :
        \A u, v \in rows : u.id = v.id => u = v}

InitDeps == IdleCore /\ IdleExt

GetCurrentUser ==
    /\ \E credentials \in BearerTokens, db \in UserTables :
        \E out \in {get_current_user(credentials, db)} :
            deps' = [stage |-> "done", credentials |-> credentials, db |-> db, out |-> out]
    /\ UNCHANGED <<core, ExtBut_deps>>

NextDeps == GetCurrentUser

SpecDeps == InitDeps /\ [][NextDeps]_vars

\* The call is one the claim names: the token is rejected, has no "sub",
\* names no row (unknown or malformed id) or names an inactive user.
AuthenticationFails ==
    \/ verify_token(deps.credentials).none
    \/ "sub" \notin deps.credentials.claims
    \/ ~\E u \in deps.db : u.id = deps.credentials.sub /\ u.is_active

\* C24: every authentication failure of get_current_user (rejected token, no
\* "sub", unknown or malformed user id, inactive user) raises HTTPException
\* with status 401 and never any other error.
C24_FailureIs401 ==
    (deps.stage = "done" /\ AuthenticationFails)
        => (deps.out.exc = "HTTPException" /\ deps.out.status = 401)

(***************************************************************************)
(* The file service, one call at a time: uploads, deletions, sharing and   *)
(* revocation by two users.                                                *)
(***************************************************************************)
ExtBut_files_perms_accounts_clock == <<hashing, legacy, tasks, deps, uploads, shares>>

TheDatabase == Database(files, perms, accounts)

\* await db.commit() of a call that returned r (a call that raised or
\* returned early changed nothing).
Commit(r) ==
    /\ files' = r.db.files
    /\ perms' = r.db.perms
    /\ accounts' = r.db.accounts

InitFiles == IdleCore /\ IdleExt

\* POST /files/upload: upload_file for the current user; the sizes include
\* one above max_size.
UploadFile ==
    /\ \E user \in FileUsers, file_size \in 1..(max_size + 1),
          filename \in {"", "a.txt"}, is_public \in BOOLEAN,
          id \in FileIds \ {f.id : f \in files} :
        \E r \in {upload_file(TheDatabase, user, file_size, filename, is_public, id)} : Commit(r)
    /\ UNCHANGED <<core, clock, ExtBut_files_perms_accounts_clock>>

\* DELETE /files/{file_id}
DeleteFile ==
    /\ \E file_id \in FileIds, user \in FileUsers :
        \E r \in {delete_file(TheDatabase, file_id, user, clock)} : Commit(r)
    /\ UNCHANGED <<core, clock, ExtBut_files_perms_accounts_clock>>

\* DELETE /files/{file_id}/permanent
PermanentlyDeleteFile ==
    /\ \E file_id \in FileIds, user \in FileUsers :
        \E r \in {permanently_delete_file(TheDatabase, file_id, user, clock)} : Commit(r)
    /\ UNCHANGED <<core, clock, ExtBut_files_perms_accounts_clock>>

\* The identifiers share_file is given: usernames, an email, an unknown name.
TargetIdentifiers == {"alice", "bob", "bob@example.com", "carol"}

\* POST /files/{file_id}/share
ShareFile ==
    /\ \E file_id \in FileIds, owner \in FileUsers, target \in TargetIdentifiers,
          permission_type \in FilePermissionType, expires_hours \in {0, 1} :
        \E r \in {share_file(TheDatabase, file_id, owner, target, permission_type,
                             expires_hours, clock)} : Commit(r)
    /\ UNCHANGED <<core, clock, ExtBut_files_perms_accounts_clock>>

\* DELETE /files/{file_id}/share/{user_id}
RevokeFileAccess ==
    /\ \E file_id \in FileIds, owner \in FileUsers, target \in TargetIds \cup {"not-a-uuid"} :
        \E r \in {revoke_file_access(TheDatabase, file_id, owner, target, clock)} : Commit(r)
    /\ UNCHANGED <<core, clock, ExtBut_files_perms_accounts_clock>>

NextFiles ==
    \/ UploadFile
    \/ DeleteFile
    \/ PermanentlyDeleteFile
    \/ ShareFile
    \/ RevokeFileAccess

SpecFiles == InitFiles /\ [][NextFiles]_vars

(***************************************************************************)
(* The file service with time passing between the calls, for permissions  *)
(* that expire.                                                            *)
(***************************************************************************)
MaxTime == 2

MaxPermissions == 2

InitExpiry == IdleCore /\ IdleExt

\* An hour passes.
Tick ==
    /\ clock < MaxTime
    /\ clock' = clock + 1
    /\ UNCHANGED <<core, files, perms, accounts, ExtBut_files_perms_accounts_clock>>

\* A call of the file service, while the permissions table is small.
FileCall ==
    /\ NextFiles
    /\ Cardinality(perms') <= MaxPermissions

NextExpiry ==
    \/ FileCall
    \/ Tick

SpecExpiry == InitExpiry /\ [][NextExpiry]_vars

\* The permission rows of a user on a file.
PermissionsOf(file_obj, user) ==
    {p \in perms : p.file_id = file_obj.id /\ p.user_id = user}

\* C25: for a grantee whose only permission on a private active file has
\* expires_at set, can_access_file returns True while the current time is
\* not after expires_at and False afterwards, and never raises.
C25_AccessUntilExpiry ==
    \A file_obj \in files, user \in FileUsers, p \in perms :
        (/\ file_obj.status = "active" /\ ~file_obj.is_public
         /\ user # file_obj.owner_id
         /\ PermissionsOf(file_obj, user) = {p}
         /\ p.is_active /\ ~p.expires_at.none)
        => can_access_file(TheDatabase, file_obj, user, p.permission_type, clock)
               = [exc |-> "", val |-> clock <= p.expires_at.at]

\* C27: a non-owner who holds an active, unexpired DELETE permission and no
\* other permission on an active private file can soft-delete it:
\* delete_file returns True and sets the file's status to DELETED.
C27_DeletePermissionDeletes ==
    \A file_obj \in files, user \in FileUsers, p \in perms :
        (/\ file_obj.status = "active" /\ ~file_obj.is_public
         /\ user # file_obj.owner_id
         /\ PermissionsOf(file_obj, user) = {p}
         /\ p.permission_type = "delete"
         /\ p.is_active /\ p.expires_at.none)
        => /\ delete_file(TheDatabase, file_obj.id, user, clock).exc = ""
           /\ delete_file(TheDatabase, file_obj.id, user, clock).ret
           /\ [file_obj EXCEPT !.status = "deleted"]
                  \in delete_file(TheDatabase, file_obj.id, user, clock).db.files

RECURSIVE total_size(_)
total_size(rows) ==
    IF rows = {}
    THEN 0
    ELSE LET f == CHOOSE x \in rows : TRUE
         IN  f.file_size + total_size(rows \ {f})

\* C28: after any sequence of upload_file, delete_file and
\* permanently_delete_file calls, each user's storage_used equals the sum of
\* file_size over that user's ACTIVE files and is never negative.
C28_StorageAccounting ==
    \A user \in FileUsers :
        /\ accounts[user] >= 0
        /\ accounts[user]
               = total_size({f \in files : f.owner_id = user /\ f.status = "active"})

\* can_access_file returns False to the user for every permission type.
Refused(db, file_obj, user, now) ==
    \A p \in FilePermissionType :
        can_access_file(db, file_obj, user, p, now) = [exc |-> "", val |-> FALSE]

\* The targets of a revocation on a file: every user id, or every user id
\* but the owner's.
Targets(file_obj, owner_too) ==
    IF owner_too THEN TargetIds ELSE TargetIds \ {file_obj.owner_id}

\* Right after a revoke_file_access that returned True, the target is
\* refused every permission type on the file, if it is not public.
RevokeRefuses(owner_too) ==
    \A file_obj \in files, owner \in FileUsers :
        \A target \in Targets(file_obj, owner_too) :
            (/\ ~file_obj.is_public
             /\ revoke_file_access(TheDatabase, file_obj.id, owner, target, clock).ret)
            => Refused(revoke_file_access(TheDatabase, file_obj.id, owner, target, clock).db,
                       file_obj, target, clock)

\* A user who is refused every permission type on a file that is not public
\* stays refused by every step that is no share_file for that user: no step
\* that leaves the user without a new or changed active row gives access.
StaysRefused(owner_too) ==
    \A file_obj \in files, kept \in files' :
        \A target \in Targets(file_obj, owner_too) :
            (/\ kept.id = file_obj.id /\ kept.owner_id = file_obj.owner_id
             /\ ~file_obj.is_public /\ ~kept.is_public
             /\ Refused(TheDatabase, file_obj, target, clock)
             /\ ~\E p \in perms' \ perms :
                    p.file_id = file_obj.id /\ p.user_id = target /\ p.is_active)
            => Refused(Database(files', perms', accounts'), kept, target, clock')

\* C26 as stated: after revoke_file_access(file, owner, target) succeeds,
\* can_access_file(file, target, p) is False for every permission type p on
\* a non-public file, and stays False until the owner calls share_file for
\* that target again; the target may be any user, the owner included.
C26_RevokedStaysRefused ==
    [](RevokeRefuses(TRUE)) /\ [][StaysRefused(TRUE)]_vars

\* C26, amended: the same for every target other than the file's owner (the
\* owner's access does not come from permission rows and is not revoked).
C26_RevokedOtherStaysRefused ==
    [](RevokeRefuses(FALSE)) /\ [][StaysRefused(FALSE)]_vars

\* A revocation has acted: a user's rows on an active private file are all
\* inactive, one of them for READ and one for another type.
C26_Witness ==
    \E file_obj \in files :
        /\ file_obj.status = "active" /\ ~file_obj.is_public
        /\ \E p, q \in PermissionsOf(file_obj, "bob") :
            p.permission_type = "read" /\ q.permission_type # "read"
        /\ \A p \in PermissionsOf(file_obj, "bob") : ~p.is_active
        /\ Refused(TheDatabase, file_obj, "bob", clock)

(***************************************************************************)
(* Concurrent uploads.  Every request has its own session and its own User *)
(* object, loaded by get_current_user; upload_file checks the quota on     *)
(* that object, awaits the storage upload, and then adds the size to the   *)
(* object and commits it.  Between two awaits a task runs alone.           *)
(***************************************************************************)
ExtBut_files_accounts_uploads == <<hashing, legacy, tasks, deps, perms, clock, shares>>

UploadIds == {1, 2}

InitUpload == IdleCore /\ IdleExt

\* get_current_user: the User object of the request is the users row as it
\* is now; the endpoint then awaits file.read().
LoadUser(t) ==
    /\ uploads[t].pc = "idle"
    /\ \E user \in FileUsers :
        uploads' = [uploads EXCEPT ![t] = [NoUpload EXCEPT !.pc = "loaded", !.user = user,
                                                       !.storage_used = accounts[user]]]
    /\ UNCHANGED <<core, files, accounts, ExtBut_files_accounts_uploads>>

\* upload_file up to await storage_service.upload_file(...)
BeginUpload(t) ==
    /\ uploads[t].pc = "loaded"
    /\ \E file_size \in 1..(max_size + 1), filename \in {"", "a.txt"}, is_public \in {FALSE} :
        \E exc \in {upload_checks(uploads[t].storage_used, file_size, filename)} :
            uploads' = [uploads EXCEPT ![t] = [@ EXCEPT !.pc = IF exc = "" THEN "storing" ELSE "done",
                                                        !.file_size = file_size,
                                                        !.is_public = is_public,
                                                        !.exc = exc]]
    /\ UNCHANGED <<core, files, accounts, ExtBut_files_accounts_uploads>>

\* upload_file from the return of the storage upload to its own return.
FinishUpload(t) ==
    /\ uploads[t].pc = "storing"
    /\ \E id \in UploadIds \ {f.id : f \in files} :
        \E db \in {upload_stored(TheDatabase, uploads[t].user, uploads[t].storage_used,
                                 uploads[t].file_size, uploads[t].is_public, id)} :
            /\ files' = db.files
            /\ accounts' = db.accounts
    /\ uploads' = [uploads EXCEPT ![t] = [@ EXCEPT !.pc = "done",
                                                   !.storage_used = @ + uploads[t].file_size]]
    /\ UNCHANGED <<core, ExtBut_files_accounts_uploads>>

\* The storage upload raises: rollback, and the exception goes to the caller.
FailUpload(t) ==
    /\ uploads[t].pc = "storing"
    /\ uploads' = [uploads EXCEPT ![t] = [@ EXCEPT !.pc = "done", !.exc = "Exception"]]
    /\ UNCHANGED <<core, files, accounts, ExtBut_files_accounts_uploads>>

\* The response is sent and the request's session closed.
ReturnUpload(t) ==
    /\ uploads[t].pc = "done"
    /\ uploads' = [uploads EXCEPT ![t] = NoUpload]
    /\ UNCHANGED <<core, files, accounts, ExtBut_files_accounts_uploads>>

NextUpload ==
    \E t \in Tasks :
        \/ LoadUser(t)
        \/ BeginUpload(t)
        \/ FinishUpload(t)
        \/ FailUpload(t)
        \/ ReturnUpload(t)

SpecUpload == InitUpload /\ [][NextUpload]_vars

\* No user's storage_used is above the quota.
WithinQuota == \A user \in FileUsers : accounts[user] <= max_storage

\* An upload that is stored did not push the user's usage past the quota,
\* and an upload that is rejected changes nothing.
QuotaDecides ==
    \A t \in Tasks :
        /\ (uploads[t].pc = "storing" /\ uploads'[t].pc = "done" /\ uploads'[t].exc = "")
               => accounts[uploads[t].user] + uploads[t].file_size <= max_storage
        /\ (uploads[t].pc = "loaded" /\ uploads'[t].exc # "")
               => (files' = files /\ accounts' = accounts)

\* C29: under any interleaving of upload_file calls for one user, the
\* user's storage_used never exceeds the quota, and an upload that would
\* push usage past the quota is rejected and changes nothing.
C29_QuotaEnforced ==
    [](WithinQuota) /\ [][QuotaDecides]_vars

(***************************************************************************)
(* Concurrent share_file calls, with revocations between their steps.  A   *)
(* share_file call awaits its selects and then its commit; the step that   *)
(* matters is from the select of the existing permission to the commit.    *)
(***************************************************************************)
ExtBut_files_perms_accounts_shares == <<hashing, legacy, tasks, deps, clock, uploads>>

\* The permission type the calls ask for: WRITE, which can_access_file looks
\* up for WRITE and for READ.
SharedTypes == {"write"}

InitShare == IdleCore /\ IdleExt

\* share_file to the end of its selects (or to an early return).
BeginShare(t) ==
    /\ shares[t].pc = "idle"
    /\ \E file_id \in FileIds, owner \in FileUsers, target \in TargetIdentifiers,
          permission_type \in SharedTypes, expires_hours \in {0, 1} :
        \E looked \in {share_lookup(TheDatabase, file_id, owner, target, permission_type, clock)} :
            shares' = [shares EXCEPT ![t] =
                IF looked.go
                THEN [NoShare EXCEPT !.pc = "granting", !.file_id = file_id,
                                     !.target = looked.target,
                                     !.permission_type = permission_type,
                                     !.expires_hours = expires_hours,
                                     !.existing = looked.existing]
                ELSE [NoShare EXCEPT !.pc = "done", !.exc = looked.exc]]
    /\ UNCHANGED <<core, files, perms, accounts, ExtBut_files_perms_accounts_shares>>

\* share_file from the result of the select to its return: update or add,
\* and commit.
FinishShare(t) ==
    /\ shares[t].pc = "granting"
    /\ \E db \in {grant(TheDatabase, shares[t].existing, shares[t].file_id, shares[t].target,
                        shares[t].permission_type, expiry(shares[t].expires_hours, clock))} :
        perms' = db.perms
    /\ shares' = [shares EXCEPT ![t] = [NoShare EXCEPT !.pc = "done", !.ret = TRUE]]
    /\ UNCHANGED <<core, files, accounts, ExtBut_files_perms_accounts_shares>>

\* The caller has the result.
ReturnShare(t) ==
    /\ shares[t].pc = "done"
    /\ shares' = [shares EXCEPT ![t] = NoShare]
    /\ UNCHANGED <<core, files, perms, accounts, ExtBut_files_perms_accounts_shares>>

\* An upload or a revocation, run between the steps of the share_file calls.
OtherCall == UploadFile \/ RevokeFileAccess

NextShare ==
    \/ \E t \in Tasks : BeginShare(t) \/ FinishShare(t) \/ ReturnShare(t)
    \/ OtherCall

SpecShare == InitShare /\ [][NextShare]_vars

\* C30: after any interleaving of share_file and revoke_file_access calls
\* there is at most one FilePermission record per (file, target user,
\* permission type), so the single-row lookup of can_access_file never
\* finds several rows.
C30_OnePermissionPerKey ==
    /\ \A p, q \in perms :
        (p.file_id = q.file_id /\ p.user_id = q.user_id
            /\ p.permission_type = q.permission_type) => p = q
    /\ \A file_obj \in files, user \in FileUsers, permission_type \in FilePermissionType :
        can_access_file(TheDatabase, file_obj, user, permission_type, clock).exc
            # "MultipleResultsFound"

====
